---- MODULE Spec2Model ----
(***************************************************************************)
(* Model of the ECH proxy client (tun2socks/engine/proxyclient.go):        *)
(* lifecycle (Start / Stop / IsRunning), the accept loop, the per-         *)
(* connection protocol sniffer, the SOCKS5 and HTTP front ends and the     *)
(* WebSocket tunnel engine.                                                *)
(*                                                                         *)
(* Bytes and characters are integers 0..255 (ASCII codes); a string is a   *)
(* sequence of them.                                                       *)
(***************************************************************************)
EXTENDS Integers, Sequences, FiniteSets, TLC

VARIABLES
    serverAddr, \* ProxyClient.serverAddr, as given to the constructor
    lastQuery,  \* history: the bytes of the most recently completed successful HTTPS-RR query
    logCallback, \* the log sinks: ProxyClient.logCallback, AndroidProxyClient.logCallback and its mu
    running,    \* ProxyClient.running
    listener,   \* ProxyClient.listener: 0 = nil, else an index into lsn
    echList,    \* ProxyClient.echList
    lsn,        \* every listener net.Listen has returned: [addr, open]
    call,       \* one record per API caller (a goroutine calling Start/Stop/IsRunning)
    acc,        \* the acceptLoop goroutines, in the order they were spawned
    conns,      \* the accepted connections, each with its handleConnection goroutine
    log         \* the messages handed to logInfo / logError

vars == <<serverAddr, logCallback, lastQuery, running, listener, echList, lsn, call, acc, conns, log>>

----------------------------------------------------------------------------
(* Bounds of the model *)

MaxCalls == 3       \* API calls made over the whole run
TunnelCalls == 2    \* API calls made over a tunnel run
MaxConns == 1       \* connections accepted over the whole run
AddrCalls == 2      \* API calls made over an address run
DialCalls == 2      \* API calls made over a dial run
DialConns == 1      \* connections accepted over a dial run
CopyFrames == 2     \* frames of a session in each direction over a copy run
MaxFrames == 1      \* data frames carried by one WebSocket session in each direction
SinkCalls == 3      \* API calls made over a sink run
ReenterCalls == 3   \* API calls made over a run with a sink that calls back
DNSCalls == 2       \* TestConnection calls made over a resolver run
TimeStep == 5       \* seconds that pass in one step of the clock of a session
MaxTime == 45       \* seconds a session is followed for

\* the goroutines calling the public API
Callers == {1, 2}

\* listen addresses handed to Start
Addrs == {"127.0.0.1:1080", "127.0.0.1:1081"}

\* SvcParamKey 5 values the DNS answer may carry (<<>>: no ech parameter)
EchValues == {<<>>, <<254>>, <<0, 4, 254, 13>>}

----------------------------------------------------------------------------
(* Sequence helpers *)

Take(s, n) == SubSeq(s, 1, n)
Drop(s, n) == SubSeq(s, n + 1, Len(s))

Min(a, b) == IF a < b THEN a ELSE b

----------------------------------------------------------------------------
(* encoding/base64, StdEncoding *)

B64Alphabet ==
    <<65, 66, 67, 68, 69, 70, 71, 72, 73, 74, 75, 76, 77,
      78, 79, 80, 81, 82, 83, 84, 85, 86, 87, 88, 89, 90,
      97, 98, 99, 100, 101, 102, 103, 104, 105, 106, 107, 108, 109,
      110, 111, 112, 113, 114, 115, 116, 117, 118, 119, 120, 121, 122,
      48, 49, 50, 51, 52, 53, 54, 55, 56, 57, 43, 47>>

B64Pad == 61   \* '='

B64Char(v) == B64Alphabet[v + 1]

\* base64.StdEncoding.EncodeToString
RECURSIVE Base64Encode(_)
Base64Encode(b) ==
    IF Len(b) = 0 THEN <<>>
    ELSE IF Len(b) = 1 THEN
        <<B64Char(b[1] \div 4), B64Char((b[1] % 4) * 16), B64Pad, B64Pad>>
    ELSE IF Len(b) = 2 THEN
        <<B64Char(b[1] \div 4),
          B64Char((b[1] % 4) * 16 + b[2] \div 16),
          B64Char((b[2] % 16) * 4), B64Pad>>
    ELSE
        <<B64Char(b[1] \div 4),
          B64Char((b[1] % 4) * 16 + b[2] \div 16),
          B64Char((b[2] % 16) * 4 + b[3] \div 64),
          B64Char(b[3] % 64)>> \o Base64Encode(Drop(b, 3))

IsB64Char(c) == \E i \in 1..64 : B64Alphabet[i] = c
B64Val(c) == (CHOOSE i \in 1..64 : B64Alphabet[i] = c) - 1

\* base64.StdEncoding.DecodeString: [ok, bytes]
RECURSIVE Base64Decode(_)
Base64Decode(s) ==
    IF Len(s) = 0 THEN [ok |-> TRUE, bytes |-> <<>>]
    ELSE IF Len(s) < 4 THEN [ok |-> FALSE, bytes |-> <<>>]
    ELSE IF ~(IsB64Char(s[1]) /\ IsB64Char(s[2])) THEN [ok |-> FALSE, bytes |-> <<>>]
    ELSE
        LET v1 == B64Val(s[1])
            v2 == B64Val(s[2])
            b1 == v1 * 4 + v2 \div 16
        IN  IF s[3] = B64Pad THEN
                IF s[4] = B64Pad /\ Len(s) = 4
                THEN [ok |-> TRUE, bytes |-> <<b1>>]
                ELSE [ok |-> FALSE, bytes |-> <<>>]
            ELSE IF ~IsB64Char(s[3]) THEN [ok |-> FALSE, bytes |-> <<>>]
            ELSE
                LET v3 == B64Val(s[3])
                    b2 == (v2 % 16) * 16 + v3 \div 4
                IN  IF s[4] = B64Pad THEN
                        IF Len(s) = 4
                        THEN [ok |-> TRUE, bytes |-> <<b1, b2>>]
                        ELSE [ok |-> FALSE, bytes |-> <<>>]
                    ELSE IF ~IsB64Char(s[4]) THEN [ok |-> FALSE, bytes |-> <<>>]
                    ELSE
                        LET b3 == (v3 % 4) * 64 + B64Val(s[4])
                            rest == Base64Decode(Drop(s, 4))
                        IN  [ok |-> rest.ok,
                             bytes |-> IF rest.ok THEN <<b1, b2, b3>> \o rest.bytes
                                       ELSE <<>>]

----------------------------------------------------------------------------
(* DNS: the HTTPS (type 65) query and the parsing of its answer *)

typeHTTPS == 65

Dot == 46      \* '.'

\* config.ECHDomain when none is given: "cloudflare-ech.com"
ECHDomain ==
    <<99, 108, 111, 117, 100, 102, 108, 97, 114, 101, 45, 101, 99, 104, 46, 99, 111, 109>>

\* b[i], i counted from 0; a read outside b (a panic of the runtime) reads 0
\* here and is reported by the parsers as oob
Byte(b, i) == IF 0 <= i /\ i < Len(b) THEN b[i + 1] ELSE 0

\* the slice expression b[lo:hi] is within b
InRange(b, lo, hi) == 0 <= lo /\ lo <= hi /\ hi <= Len(b)

\* b[lo:hi], the part of it that lies within b
Slice(b, lo, hi) == SubSeq(b, lo + 1, Min(hi, Len(b)))

\* binary.BigEndian.Uint16(b[offset : offset+2]), offset counted from 0
Uint16(b, offset) == Byte(b, offset) * 256 + Byte(b, offset + 1)

\* strings.Split(s, sep) for a separator of one byte
RECURSIVE Split(_, _)
Split(s, sep) ==
    IF \A i \in 1..Len(s) : s[i] # sep THEN <<s>>
    ELSE LET i == CHOOSE k \in 1..Len(s) :
                      s[k] = sep /\ \A j \in 1..(k - 1) : s[j] # sep
         IN  <<Take(s, i - 1)>> \o Split(Drop(s, i), sep)

\* buildDNSQuery, the loop over the labels: length byte, then the label
RECURSIVE AppendLabels(_)
AppendLabels(labels) ==
    IF labels = <<>> THEN <<>>
    ELSE <<Len(Head(labels)) % 256>> \o Head(labels) \o AppendLabels(Tail(labels))

\* buildDNSQuery: id 1, RD set, one question of class IN
buildDNSQuery(domain, qtype) ==
    <<0, 1, 1, 0, 0, 1, 0, 0, 0, 0, 0, 0>>
        \o AppendLabels(Split(domain, Dot))
        \o <<0, (qtype \div 256) % 256, qtype % 256, 0, 1>>

\* the parsers return, with their result, oob: a read or a slice went outside
\* the input, and steps: the iterations their loops made

\* for offset < len(b) && b[offset] != 0 { offset += int(b[offset]) + 1 }
RECURSIVE SkipLabels(_, _)
SkipLabels(b, offset) ==
    IF offset < Len(b) /\ Byte(b, offset) # 0
    THEN LET r == SkipLabels(b, offset + Byte(b, offset) + 1)
         IN  [r EXCEPT !.steps = @ + 1]
    ELSE [offset |-> offset, oob |-> FALSE, steps |-> 0]

\* parseHTTPSRecord, the loop over the SvcParams from offset on: the base64
\* text of the first value of key 5, "" when the loop ends without one
RECURSIVE SvcParamECH(_, _)
SvcParamECH(data, offset) ==
    IF offset + 4 > Len(data) THEN [ech |-> <<>>, oob |-> FALSE, steps |-> 0]
    ELSE LET key == Uint16(data, offset)
             length == Uint16(data, offset + 2)
             o == offset + 4
             out == ~InRange(data, offset, o)
         IN  IF o + length > Len(data) THEN [ech |-> <<>>, oob |-> out, steps |-> 1]
             ELSE IF key = 5
             THEN [ech |-> Base64Encode(Slice(data, o, o + length)),
                   oob |-> out \/ ~InRange(data, o, o + length), steps |-> 1]
             ELSE LET r == SvcParamECH(data, o + length)
                  IN  [ech |-> r.ech,
                       oob |-> out \/ ~InRange(data, o, o + length) \/ r.oob,
                       steps |-> r.steps + 1]

\* parseHTTPSRecord, the skipping of the priority and of the target name
TargetEnd(data) ==
    IF 2 < Len(data) /\ Byte(data, 2) = 0
    THEN [offset |-> 3, oob |-> FALSE, steps |-> 0]
    ELSE LET r == SkipLabels(data, 2) IN [r EXCEPT !.offset = @ + 1]

\* parseHTTPSRecord looking at the first SvcParam only
parseHTTPSRecord_FirstParam(data) ==
    IF Len(data) < 2 THEN [ech |-> <<>>, oob |-> FALSE, steps |-> 0]
    ELSE LET offset == TargetEnd(data).offset
         IN  IF offset + 4 > Len(data) THEN [ech |-> <<>>, oob |-> FALSE, steps |-> 0]
             ELSE LET length == Uint16(data, offset + 2)
                  IN  IF offset + 4 + length > Len(data) \/ Uint16(data, offset) # 5
                      THEN [ech |-> <<>>, oob |-> FALSE, steps |-> 1]
                      ELSE [ech |-> Base64Encode(Slice(data, offset + 4, offset + 4 + length)),
                            oob |-> FALSE, steps |-> 1]

\* parseHTTPSRecord: skip the priority and the target name, then the SvcParams
parseHTTPSRecord(data) ==
    IF Len(data) < 2 THEN [ech |-> <<>>, oob |-> FALSE, steps |-> 0]
    ELSE LET t == TargetEnd(data)
             r == SvcParamECH(data, t.offset)
         IN  [ech |-> r.ech, oob |-> t.oob \/ r.oob, steps |-> t.steps + r.steps]

\* parseDNSResponse, the loop over the answers without the test that the
\* fixed part of a record lies within the response
RECURSIVE AnswerECH_NoHeaderCheck(_, _, _)
AnswerECH_NoHeaderCheck(response, offset, n) ==
    IF n = 0 \/ offset >= Len(response) THEN [ech |-> <<>>, oob |-> FALSE, steps |-> 0]
    ELSE LET nm == IF (Byte(response, offset) \div 64) % 4 = 3
                   THEN [offset |-> offset + 2, oob |-> FALSE, steps |-> 0]
                   ELSE LET r == SkipLabels(response, offset)
                        IN  [r EXCEPT !.offset = @ + 1]
             o1 == nm.offset
             rrType == Uint16(response, o1)
             dataLen == Uint16(response, o1 + 8)
             o2 == o1 + 10
             out == nm.oob \/ ~InRange(response, o1, o1 + 2)
                           \/ ~InRange(response, o1 + 8, o2)
         IN  IF o2 + dataLen > Len(response)
             THEN [ech |-> <<>>, oob |-> out, steps |-> nm.steps + 1]
             ELSE LET data == Slice(response, o2, o2 + dataLen)
                      h == IF rrType = typeHTTPS THEN parseHTTPSRecord(data)
                           ELSE [ech |-> <<>>, oob |-> FALSE, steps |-> 0]
                      here == out \/ ~InRange(response, o2, o2 + dataLen) \/ h.oob
                  IN  IF h.ech # <<>>
                      THEN [ech |-> h.ech, oob |-> here,
                            steps |-> nm.steps + h.steps + 1]
                      ELSE LET r == AnswerECH_NoHeaderCheck(response, o2 + dataLen, n - 1)
                           IN  [ech |-> r.ech, oob |-> here \/ r.oob,
                                steps |-> nm.steps + h.steps + 1 + r.steps]

\* parseDNSResponse, the loop over the answers: n records are still to be
\* read from offset on
RECURSIVE AnswerECH(_, _, _)
AnswerECH(response, offset, n) ==
    IF n = 0 \/ offset >= Len(response) THEN [ech |-> <<>>, oob |-> FALSE, steps |-> 0]
    ELSE LET nm == IF (Byte(response, offset) \div 64) % 4 = 3
                   THEN [offset |-> offset + 2, oob |-> FALSE, steps |-> 0]
                   ELSE LET r == SkipLabels(response, offset)
                        IN  [r EXCEPT !.offset = @ + 1]
             o1 == nm.offset
         IN  IF o1 + 10 > Len(response)
             THEN [ech |-> <<>>, oob |-> nm.oob, steps |-> nm.steps + 1]
             ELSE LET rrType == Uint16(response, o1)
                      dataLen == Uint16(response, o1 + 8)
                      o2 == o1 + 10
                      out == nm.oob \/ ~InRange(response, o1, o1 + 2)
                                    \/ ~InRange(response, o1 + 8, o2)
                  IN  IF o2 + dataLen > Len(response)
                      THEN [ech |-> <<>>, oob |-> out, steps |-> nm.steps + 1]
                      ELSE LET data == Slice(response, o2, o2 + dataLen)
                               h == IF rrType = typeHTTPS THEN parseHTTPSRecord(data)
                                    ELSE [ech |-> <<>>, oob |-> FALSE, steps |-> 0]
                               here == out \/ ~InRange(response, o2, o2 + dataLen) \/ h.oob
                           IN  IF h.ech # <<>>
                               THEN [ech |-> h.ech, oob |-> here,
                                     steps |-> nm.steps + h.steps + 1]
                               ELSE LET r == AnswerECH(response, o2 + dataLen, n - 1)
                                    IN  [ech |-> r.ech, oob |-> here \/ r.oob,
                                         steps |-> nm.steps + h.steps + 1 + r.steps]

\* parseDNSResponse answering the empty result where it returns an error
parseDNSResponse_NoErrors(response) ==
    IF Len(response) < 12 \/ Uint16(response, 6) = 0
    THEN [err |-> FALSE, ech |-> <<>>, oob |-> FALSE, steps |-> 0]
    ELSE LET q == SkipLabels(response, 12)
             r == AnswerECH(response, q.offset + 5, Uint16(response, 6))
         IN  [err |-> FALSE, ech |-> r.ech, oob |-> q.oob \/ r.oob,
              steps |-> q.steps + r.steps]

\* parseDNSResponse: [err, ech, oob, steps]
parseDNSResponse(response) ==
    IF Len(response) < 12
    THEN [err |-> TRUE, ech |-> <<>>, oob |-> FALSE, steps |-> 0]
    ELSE IF Uint16(response, 6) = 0
    THEN [err |-> TRUE, ech |-> <<>>, oob |-> ~InRange(response, 6, 8), steps |-> 0]
    ELSE LET q == SkipLabels(response, 12)
             r == AnswerECH(response, q.offset + 5, Uint16(response, 6))
         IN  [err |-> FALSE, ech |-> r.ech,
              oob |-> ~InRange(response, 6, 8) \/ q.oob \/ r.oob,
              steps |-> q.steps + r.steps]

\* one SvcParam on the wire: key, length, value
SvcParam(key, value) ==
    <<key \div 256, key % 256, Len(value) \div 256, Len(value) % 256>> \o value

RECURSIVE SvcParamsWire(_)
SvcParamsWire(ps) ==
    IF ps = <<>> THEN <<>>
    ELSE SvcParam(Head(ps).key, Head(ps).value) \o SvcParamsWire(Tail(ps))

\* one resource record of class IN on the wire
ResourceRecord(owner, type, rdata) ==
    owner \o <<type \div 256, type % 256, 0, 1, 0, 0, 1, 44,
               Len(rdata) \div 256, Len(rdata) % 256>> \o rdata

RECURSIVE RecordsWire(_)
RecordsWire(rs) ==
    IF rs = <<>> THEN <<>>
    ELSE ResourceRecord(<<192, 12>>, Head(rs).type, Head(rs).data)
             \o RecordsWire(Tail(rs))

\* what a resolver answers to query: the id and the question of the query,
\* the records of before (each an owner pointer, a type and its data), then
\* one HTTPS record of priority 1 whose owner is written as the labels of the
\* question or as a pointer to them, with target name target and the
\* SvcParams params
DNSAnswer(query, before, form, target, params) ==
    LET question == Drop(query, 12)
        qname == Take(question, Len(question) - 4)
        owner == IF form = "pointer" THEN <<192, 12>> ELSE qname
    IN  <<query[1], query[2], 129, 128, 0, 1, 0, Len(before) + 1, 0, 0, 0, 0>>
            \o question
            \o RecordsWire(before)
            \o ResourceRecord(owner, typeHTTPS,
                              <<0, 1>> \o target \o SvcParamsWire(params))

\* the ech SvcParam of value v, none for the empty value
EchParam(v) == IF v = <<>> THEN <<>> ELSE <<[key |-> 5, value |-> v]>>

\* the answers of the resolver in the runs of the proxy: one HTTPS record,
\* the owner a pointer, the target ".", the ech parameter alone
DNSAnswers ==
    {DNSAnswer(buildDNSQuery(ECHDomain, typeHTTPS), <<>>, "pointer", <<0>>, EchParam(v)) :
        v \in EchValues}

\* queryHTTPSRecord when the transport delivered response
queryHTTPSRecord(response) ==
    LET p == parseDNSResponse(response)
    IN  [err |-> p.err, b64 |-> p.ech, resp |-> response]

----------------------------------------------------------------------------
(* Log *)

\* logInfo / logError: the sink receives (level, message); the message is
\* kept as its format and the error text it carries
LogEntry(level, msg, err) == [level |-> level, msg |-> msg, err |-> err]
logInfo(msg) == {LogEntry("INFO", msg, "")}
logError(msg, err) == {LogEntry("ERROR", msg, err)}

----------------------------------------------------------------------------
(* Listeners *)

\* the address is taken by a listener that is still open
AddrInUse(l, a) == \E i \in 1..Len(l) : l[i].open /\ l[i].addr = a

\* net.Listener.Close
CloseListener(l, id) == [l EXCEPT ![id].open = FALSE]

----------------------------------------------------------------------------
(* ECH store *)

\* the outcomes of queryHTTPSRecord: an error of the transport, or what
\* parseDNSResponse makes of the answer: the base64 text of the SvcParamKey 5
\* value found by parseHTTPSRecord ("" when there is none)
QueryOutcomes ==
    {[err |-> TRUE, b64 |-> <<>>, resp |-> <<>>]} \cup
    {queryHTTPSRecord(r) : r \in DNSAnswers}

\* prepareECH without the test for an empty ECH parameter
prepareECH_NoEmptyCheck(q) ==
    IF q.err THEN [ok |-> FALSE, raw |-> <<>>, err |-> "DNS query failed"]
    ELSE LET d == Base64Decode(q.b64)
         IN  IF ~d.ok THEN [ok |-> FALSE, raw |-> <<>>, err |-> "ECH decode failed"]
             ELSE [ok |-> TRUE, raw |-> d.bytes, err |-> ""]

\* prepareECH up to the store: [ok, raw, err]
prepareECH(q) ==
    IF q.err THEN [ok |-> FALSE, raw |-> <<>>, err |-> "DNS query failed"]
    ELSE IF q.b64 = <<>> THEN [ok |-> FALSE, raw |-> <<>>, err |-> "no ECH parameter"]
    ELSE LET d == Base64Decode(q.b64)
         IN  IF ~d.ok THEN [ok |-> FALSE, raw |-> <<>>, err |-> "ECH decode failed"]
             ELSE [ok |-> TRUE, raw |-> d.bytes, err |-> ""]

\* getECHList: [ok, list]
getECHList == [ok |-> Len(echList) # 0, list |-> echList]

----------------------------------------------------------------------------
(* Lifecycle: Start, Stop, IsRunning *)

VersionTLS13 == 772    \* tls.VersionTLS13 = 0x0304

\* no TLS configuration has been built yet
NoTLS == [MinVersion |-> 0, EncryptedClientHelloConfigList |-> <<>>]

\* a caller of the API; arg: the address of its last ValidateServerAddr;
\* resp: the DNS answer its prepareECH received, until the store or the
\* next call; err: the error of prepareECH that its last call returned; of
\* its last TestConnection: dials, the calls of
\* dialer.Dial; derr, the error dialWebSocketWithECH returned; tls, the
\* configuration of the dial; via, what the gateway's side did in the attempt
\* that returned the session
IdleCall == [pc |-> "idle", op |-> "none", n |-> 0, addr |-> "", lis |-> 0,
             raw |-> <<>>, ret |-> "none", arg |-> <<>>,
             dials |-> 0, derr |-> "none", tls |-> NoTLS, via |-> "none",
             cb |-> "nil", resp |-> <<>>, err |-> ""]

\* a caller returns from the call it is in
Return(t, r) == [call EXCEPT ![t].pc = "idle", ![t].ret = r, ![t].lis = 0,
                             ![t].raw = <<>>, ![t].err = ""]

\* Start without the test of running
StartCheck_NoGuard(t, a) ==
    /\ call[t].pc = "idle"
    /\ call' = [call EXCEPT ![t].pc = "ech", ![t].op = "Start",
                            ![t].n = @ + 1, ![t].addr = a, ![t].ret = "none", ![t].err = "", ![t].resp = <<>>]
    /\ log' = log \cup logInfo("fetching ECH config")
    /\ UNCHANGED <<serverAddr, logCallback, lastQuery, running, listener, echList, lsn, acc, conns>>

\* Start, first critical section: reject when already running
StartCheck(t, a) ==
    /\ call[t].pc = "idle"
    /\ IF running
       THEN /\ call' = [Return(t, "AlreadyRunning") EXCEPT
                           ![t].op = "Start", ![t].n = @ + 1, ![t].addr = a]
            /\ log' = log
       ELSE /\ call' = [call EXCEPT ![t].pc = "ech", ![t].op = "Start",
                           ![t].n = @ + 1, ![t].addr = a, ![t].ret = "none", ![t].err = "", ![t].resp = <<>>]
            /\ log' = log \cup logInfo("fetching ECH config")
    /\ UNCHANGED <<serverAddr, logCallback, lastQuery, running, listener, echList, lsn, acc, conns>>

\* Start -> prepareECH: the DNS query and the decoding of its answer
StartQuery(t, q) ==
    /\ call[t].pc = "ech"
    /\ lastQuery' = IF prepareECH(q).ok THEN prepareECH(q).raw ELSE lastQuery
    /\ LET r == prepareECH(q)
       IN  IF r.ok
           THEN call' = [call EXCEPT ![t].pc = "store", ![t].raw = r.raw,
                                     ![t].resp = q.resp]
           ELSE call' = [Return(t, "EchError") EXCEPT ![t].err = r.err,
                                                       ![t].resp = q.resp]
    /\ UNCHANGED <<serverAddr, logCallback, running, listener, echList, lsn, acc, conns, log>>

\* Start -> prepareECH: the store under echListMu
StartStore(t) ==
    /\ call[t].pc = "store"
    /\ echList' = call[t].raw
    /\ log' = log \cup logInfo("ECH config loaded")
    /\ call' = [call EXCEPT ![t].pc = "listen", ![t].raw = <<>>, ![t].resp = <<>>]
    /\ UNCHANGED <<serverAddr, logCallback, lastQuery, running, listener, lsn, acc, conns>>

\* Start: net.Listen("tcp", listenAddr)
StartListen(t) ==
    /\ call[t].pc = "listen"
    /\ IF AddrInUse(lsn, call[t].addr)
       THEN /\ call' = Return(t, "ListenError")
            /\ lsn' = lsn
       ELSE /\ lsn' = Append(lsn, [addr |-> call[t].addr, open |-> TRUE])
            /\ call' = [call EXCEPT ![t].pc = "set", ![t].lis = Len(lsn) + 1]
    /\ UNCHANGED <<serverAddr, logCallback, lastQuery, running, listener, echList, acc, conns, log>>

\* Start, second critical section: record the listener, set running
StartSet(t) ==
    /\ call[t].pc = "set"
    /\ listener' = call[t].lis
    /\ running' = TRUE
    /\ log' = log \cup logInfo("proxy server started")
    /\ call' = [call EXCEPT ![t].pc = "spawn"]
    /\ UNCHANGED <<serverAddr, logCallback, lastQuery, echList, lsn, acc, conns>>

\* Start: go c.acceptLoop(); return nil
StartSpawn(t) ==
    /\ call[t].pc = "spawn"
    /\ acc' = Append(acc, [pc |-> "top", listener |-> 0, running |-> FALSE,
                            lis |-> call[t].lis])
    /\ call' = Return(t, "ok")
    /\ UNCHANGED <<serverAddr, logCallback, lastQuery, running, listener, echList, lsn, conns, log>>

\* Stop without the test of running
Stop_NoGuard(t) ==
    /\ call[t].pc = "idle"
    /\ running' = FALSE
    /\ IF listener # 0
       THEN /\ lsn' = CloseListener(lsn, listener)
            /\ listener' = 0
       ELSE UNCHANGED <<lsn, listener>>
    /\ log' = log \cup logInfo("proxy server stopped")
    /\ call' = [Return(t, "ok") EXCEPT ![t].op = "Stop", ![t].n = @ + 1]
    /\ UNCHANGED <<serverAddr, logCallback, lastQuery, echList, acc, conns>>

\* Stop that forgets the listener without closing it
Stop_NoClose(t) ==
    /\ call[t].pc = "idle"
    /\ IF ~running
       THEN /\ call' = [Return(t, "NotRunning") EXCEPT
                           ![t].op = "Stop", ![t].n = @ + 1]
            /\ UNCHANGED <<running, listener, log>>
       ELSE /\ running' = FALSE
            /\ listener' = 0
            /\ log' = log \cup logInfo("proxy server stopped")
            /\ call' = [Return(t, "ok") EXCEPT ![t].op = "Stop", ![t].n = @ + 1]
    /\ UNCHANGED <<serverAddr, logCallback, lastQuery, lsn, echList, acc, conns>>

\* Stop that also closes the connections it finds
Stop_ClosesConns(t) ==
    /\ call[t].pc = "idle"
    /\ IF ~running
       THEN /\ call' = [Return(t, "NotRunning") EXCEPT
                           ![t].op = "Stop", ![t].n = @ + 1]
            /\ UNCHANGED <<running, listener, lsn, log, conns>>
       ELSE /\ running' = FALSE
            /\ IF listener # 0
               THEN /\ lsn' = CloseListener(lsn, listener)
                    /\ listener' = 0
               ELSE UNCHANGED <<lsn, listener>>
            /\ conns' = [c \in 1..Len(conns) |->
                            [conns[c] EXCEPT !.closed = TRUE,
                                             !.ws = IF @ = "open" THEN "closed" ELSE @]]
            /\ log' = log \cup logInfo("proxy server stopped")
            /\ call' = [Return(t, "ok") EXCEPT ![t].op = "Stop", ![t].n = @ + 1]
    /\ UNCHANGED <<serverAddr, logCallback, lastQuery, echList, acc>>

\* Stop: one critical section
Stop(t) ==
    /\ call[t].pc = "idle"
    /\ IF ~running
       THEN /\ call' = [Return(t, "NotRunning") EXCEPT
                           ![t].op = "Stop", ![t].n = @ + 1]
            /\ UNCHANGED <<running, listener, lsn, log>>
       ELSE /\ running' = FALSE
            /\ IF listener # 0
               THEN /\ lsn' = CloseListener(lsn, listener)
                    /\ listener' = 0
               ELSE UNCHANGED <<lsn, listener>>
            /\ log' = log \cup logInfo("proxy server stopped")
            /\ call' = [Return(t, "ok") EXCEPT ![t].op = "Stop", ![t].n = @ + 1]
    /\ UNCHANGED <<serverAddr, logCallback, lastQuery, echList, acc, conns>>

\* IsRunning: snapshot under the mutex
IsRunning(t) ==
    /\ call[t].pc = "idle"
    /\ call' = [Return(t, IF running THEN "true" ELSE "false") EXCEPT
                   ![t].op = "IsRunning", ![t].n = @ + 1]
    /\ UNCHANGED <<serverAddr, logCallback, lastQuery, running, listener, echList, lsn, acc, conns, log>>

----------------------------------------------------------------------------
(* acceptLoop *)

ErrClosed == "use of closed network connection"

\* top of the loop: snapshot listener and running under the mutex
AcceptTop(k) ==
    /\ acc[k].pc = "top"
    /\ IF ~running \/ listener = 0
       THEN acc' = [acc EXCEPT ![k].pc = "done", ![k].listener = listener,
                               ![k].running = running]
       ELSE acc' = [acc EXCEPT ![k].pc = "accept", ![k].listener = listener,
                               ![k].running = running]
    /\ UNCHANGED <<serverAddr, logCallback, lastQuery, running, listener, echList, lsn, call, conns, log>>

\* listener.Accept() fails: the listener was closed, or a transient error
AcceptFail(k, err) ==
    /\ acc[k].pc = "accept"
    /\ (err = ErrClosed) <=> ~lsn[acc[k].listener].open
    /\ IF ~acc[k].running
       THEN /\ acc' = [acc EXCEPT ![k].pc = "done"]
            /\ log' = log
       ELSE /\ log' = log \cup logError("accept failed", err)
            /\ acc' = [acc EXCEPT ![k].pc = "top"]
    /\ UNCHANGED <<serverAddr, logCallback, lastQuery, running, listener, echList, lsn, call, conns>>

----------------------------------------------------------------------------
(* package strings / bufio / fmt, on sequences of ASCII codes *)

LF == 10
CR == 13
SP == 32
Colon == 58
Slash == 47

\* strings.IndexByte / strings.Index with a one-byte separator: 0-based, -1 if absent
Index(s, c) ==
    IF \E i \in 1..Len(s) : s[i] = c
    THEN (CHOOSE i \in 1..Len(s) : s[i] = c /\ \A j \in 1..(i - 1) : s[j] # c) - 1
    ELSE -1

\* strings.Contains with a one-byte substring
Contains(s, c) == Index(s, c) >= 0

\* strings.HasPrefix
HasPrefix(s, p) == Len(s) >= Len(p) /\ Take(s, Len(p)) = p

\* strings.TrimPrefix
TrimPrefix(s, p) == IF HasPrefix(s, p) THEN Drop(s, Len(p)) ELSE s

\* unicode.IsSpace on ASCII
IsSpace(c) == c \in {9, 10, 11, 12, 13, 32}

\* strings.TrimRight(s, cutset)
RECURSIVE TrimRight(_, _)
TrimRight(s, cutset) ==
    IF Len(s) > 0 /\ s[Len(s)] \in cutset THEN TrimRight(Take(s, Len(s) - 1), cutset)
    ELSE s

\* strings.TrimLeft(s, cutset)
RECURSIVE TrimLeft(_, _)
TrimLeft(s, cutset) ==
    IF Len(s) > 0 /\ s[1] \in cutset THEN TrimLeft(Drop(s, 1), cutset)
    ELSE s

\* strings.TrimSpace
TrimSpace(s) == TrimLeft(TrimRight(s, {9, 10, 11, 12, 13, 32}), {9, 10, 11, 12, 13, 32})

\* strings.ToLower on ASCII
ToLower(s) == [i \in 1..Len(s) |-> IF s[i] >= 65 /\ s[i] <= 90 THEN s[i] + 32 ELSE s[i]]

\* the text up to the first whitespace of s (s starts with a non-space)
RECURSIVE Word(_)
Word(s) == IF Len(s) = 0 \/ IsSpace(s[1]) THEN <<>> ELSE <<s[1]>> \o Word(Drop(s, 1))

\* strings.Fields: the maximal runs of non-whitespace
RECURSIVE Fields(_)
Fields(s) ==
    IF Len(s) = 0 THEN <<>>
    ELSE IF IsSpace(s[1]) THEN Fields(Drop(s, 1))
    ELSE LET w == Word(s) IN <<w>> \o Fields(Drop(s, Len(w)))

\* strings.Split(s, sep)[0]
SplitFirst(s, c) == IF Index(s, c) < 0 THEN s ELSE Take(s, Index(s, c))

\* bufio.Reader.ReadString(delim) on the bytes the client delivers:
\* [ok, line (delimiter included), rest]
ReadString(s, delim) ==
    LET i == Index(s, delim)
    IN  IF i < 0 THEN [ok |-> FALSE, line |-> s, rest |-> <<>>]
        ELSE [ok |-> TRUE, line |-> Take(s, i + 1), rest |-> Drop(s, i + 1)]

\* io.ReadFull: [ok, data, rest]; a short read ends in an error (EOF or deadline)
ReadFull(s, n) ==
    IF Len(s) < n THEN [ok |-> FALSE, data |-> s, rest |-> <<>>]
    ELSE [ok |-> TRUE, data |-> Take(s, n), rest |-> Drop(s, n)]

IsDigit(c) == c >= 48 /\ c <= 57

\* value of a run of decimal digits
RECURSIVE DigitsValue(_, _)
DigitsValue(s, accv) ==
    IF Len(s) = 0 \/ ~IsDigit(s[1]) THEN accv
    ELSE DigitsValue(Drop(s, 1), accv * 10 + (s[1] - 48))

\* fmt.Sscanf(s, "%d", &length) into a zero-initialised int: leading space is
\* skipped, a sign is accepted, the digits are read up to the first non-digit;
\* without digits the scan fails and the variable keeps 0
Sscanf_d(s) ==
    LET t == TrimLeft(s, {9, 13, 32})
        neg == Len(t) > 0 /\ t[1] = 45
        signed == Len(t) > 0 /\ t[1] \in {43, 45}
        d == IF signed THEN Drop(t, 1) ELSE t
    IN  IF Len(d) = 0 \/ ~IsDigit(d[1]) THEN 0
        ELSE IF neg THEN 0 - DigitsValue(d, 0) ELSE DigitsValue(d, 0)

\* strconv.Itoa for non-negative numbers (the %d of fmt.Sprintf)
RECURSIVE Itoa(_)
Itoa(n) == IF n < 10 THEN <<48 + n>> ELSE Itoa(n \div 10) \o <<48 + (n % 10)>>

\* lower-case hexadecimal without leading zeros
RECURSIVE Hex(_)
HexDigit(d) == IF d < 10 THEN 48 + d ELSE 87 + d
Hex(n) == IF n < 16 THEN <<HexDigit(n)>> ELSE Hex(n \div 16) \o <<HexDigit(n % 16)>>

----------------------------------------------------------------------------
(* net.IP.String *)

\* dotted decimal of 4 octets
IPv4String(b) ==
    Itoa(b[1]) \o <<46>> \o Itoa(b[2]) \o <<46>> \o Itoa(b[3]) \o <<46>> \o Itoa(b[4])

\* the eight 16-bit groups of a 16-octet address
Groups16(b) == [i \in 1..8 |-> b[2 * i - 1] * 256 + b[2 * i]]

\* number of consecutive zero groups starting at group i
RECURSIVE ZeroRun(_, _)
ZeroRun(g, i) == IF i > 8 \/ g[i] # 0 THEN 0 ELSE 1 + ZeroRun(g, i + 1)

\* start of the first longest run of at least two zero groups, 0 if none
ZeroStart(g) ==
    IF \E i \in 1..8 : ZeroRun(g, i) >= 2
    THEN CHOOSE i \in 1..8 :
            /\ ZeroRun(g, i) >= 2
            /\ \A j \in 1..8 : ZeroRun(g, j) <= ZeroRun(g, i)
            /\ \A j \in 1..(i - 1) : ZeroRun(g, j) < ZeroRun(g, i)
    ELSE 0

\* the groups from i on, the run [zs, zs + zl) written as "::"
RECURSIVE String6From(_, _, _, _)
String6From(g, i, zs, zl) ==
    IF i > 8 THEN <<>>
    ELSE IF i = zs THEN <<Colon, Colon>> \o
                        (IF zs + zl > 8 THEN <<>>
                         ELSE Hex(g[zs + zl]) \o String6From(g, zs + zl + 1, zs, zl))
    ELSE (IF i > 1 THEN <<Colon>> ELSE <<>>) \o Hex(g[i]) \o String6From(g, i + 1, zs, zl)

\* net.IP(buf).String() for 4 or 16 octets; a 16-octet IPv4-mapped address
\* prints as dotted decimal
IPString(b) ==
    IF Len(b) = 4 THEN IPv4String(b)
    ELSE IF (\A i \in 1..10 : b[i] = 0) /\ b[11] = 255 /\ b[12] = 255
         THEN IPv4String(SubSeq(b, 13, 16))
    ELSE LET g == Groups16(b)
             zs == ZeroStart(g)
         IN  String6From(g, 1, zs, IF zs = 0 THEN 0 ELSE ZeroRun(g, zs))

----------------------------------------------------------------------------
(* Texts of the protocol *)

CRLF == \* "\r\n"
    <<13, 10>>
SchemeHTTP == \* "http://"
    <<104, 116, 116, 112, 58, 47, 47>>
Port80 == \* ":80"
    <<58, 56, 48>>
KeyHost == \* "host"
    <<104, 111, 115, 116>>
KeyContentLength == \* "content-length"
    <<99, 111, 110, 116, 101, 110, 116, 45, 108, 101, 110, 103, 116, 104>>
KeyProxyConnection == \* "proxy-connection"
    <<112, 114, 111, 120, 121, 45, 99, 111, 110, 110, 101, 99, 116, 105, 111, 110>>
KeyProxyAuthorization == \* "proxy-authorization"
    <<112, 114, 111, 120, 121, 45, 97, 117, 116, 104, 111, 114, 105, 122, 97, 116, 105, 111, 110>>
M_CONNECT == \* "CONNECT"
    <<67, 79, 78, 78, 69, 67, 84>>

ForwardMethods == \* "GET", "POST", "PUT", "DELETE", "HEAD", "OPTIONS", "PATCH", "TRACE"
    {<<71, 69, 84>>,
     <<80, 79, 83, 84>>,
     <<80, 85, 84>>,
     <<68, 69, 76, 69, 84, 69>>,
     <<72, 69, 65, 68>>,
     <<79, 80, 84, 73, 79, 78, 83>>,
     <<80, 65, 84, 67, 72>>,
     <<84, 82, 65, 67, 69>>}

Resp400 == \* "HTTP/1.1 400 Bad Request\r\n\r\n"
    <<72, 84, 84, 80, 47, 49, 46, 49, 32, 52, 48, 48, 32, 66, 97, 100, 32, 82, 101, 113, 117, 101, 115, 116, 13, 10, 13, 10>>
Resp405 == \* "HTTP/1.1 405 Method Not Allowed\r\n\r\n"
    <<72, 84, 84, 80, 47, 49, 46, 49, 32, 52, 48, 53, 32, 77, 101, 116, 104, 111, 100, 32, 78, 111, 116, 32, 65, 108, 108, 111, 119, 101, 100, 13, 10, 13, 10>>
Resp502 == \* "HTTP/1.1 502 Bad Gateway\r\n\r\n"
    <<72, 84, 84, 80, 47, 49, 46, 49, 32, 53, 48, 50, 32, 66, 97, 100, 32, 71, 97, 116, 101, 119, 97, 121, 13, 10, 13, 10>>
Resp200 == \* "HTTP/1.1 200 Connection Established\r\n\r\n"
    <<72, 84, 84, 80, 47, 49, 46, 49, 32, 50, 48, 48, 32, 67, 111, 110, 110, 101, 99, 116, 105, 111, 110, 32, 69, 115, 116, 97, 98, 108, 105, 115, 104, 101, 100, 13, 10, 13, 10>>

Socks5MethodReply == <<5, 0>>
Socks5Succeeded == <<5, 0, 0, 1, 0, 0, 0, 0, 0, 0>>
Socks5HostUnreachable == <<5, 4, 0, 1, 0, 0, 0, 0, 0, 0>>
Socks5CmdNotSupported == <<5, 7, 0, 1, 0, 0, 0, 0, 0, 0>>
Socks5AtypNotSupported == <<5, 8, 0, 1, 0, 0, 0, 0, 0, 0>>

CtlPrefix == \* "CONNECT:"
    <<67, 79, 78, 78, 69, 67, 84, 58>>
TxtERROR == \* "ERROR:"
    <<69, 82, 82, 79, 82, 58>>
TxtCONNECTED == \* "CONNECTED"
    <<67, 79, 78, 78, 69, 67, 84, 69, 68>>
TxtCLOSE == \* "CLOSE"
    <<67, 76, 79, 83, 69>>

Pipe == 124   \* '|'

modeSOCKS5 == 1
modeHTTPConnect == 2
modeHTTPProxy == 3

HTTPSniffBytes == {67, 71, 80, 72, 68, 79, 84}   \* 'C','G','P','H','D','O','T'

----------------------------------------------------------------------------
(* Front ends: what a handler does with the bytes the client delivers, up to *)
(* the call of handleTunnel                                                  *)

\* the handler returns without a tunnel; handleConnection then closes conn
NoTunnel(out, logs) ==
    [out |-> out, tunnel |-> FALSE, mode |-> 0, target |-> <<>>,
     firstFrame |-> <<>>, rest |-> <<>>, residue |-> <<>>, log |-> logs]

\* the handler calls handleTunnel(conn, target, clientAddr, mode, firstFrame);
\* rest: bytes still unread on the socket; residue: bytes read from the
\* socket that stay behind in the handler's buffered reader
ToTunnel(out, mode, target, firstFrame, rest, residue, logs) ==
    [out |-> out, tunnel |-> TRUE, mode |-> mode, target |-> target,
     firstFrame |-> firstFrame, rest |-> rest, residue |-> residue, log |-> logs]

\* the ATYP switch of handleSOCKS5: [ok, known, host, rest]
Socks5Addr(s, atyp) ==
    IF atyp = 1 THEN
        LET r == ReadFull(s, 4)
        IN  [ok |-> r.ok, known |-> TRUE,
             host |-> IF r.ok THEN IPString(r.data) ELSE <<>>, rest |-> r.rest]
    ELSE IF atyp = 3 THEN
        LET r == ReadFull(s, 1)
            d == IF r.ok THEN ReadFull(r.rest, r.data[1])
                 ELSE [ok |-> FALSE, data |-> <<>>, rest |-> <<>>]
        IN  [ok |-> d.ok, known |-> TRUE,
             host |-> IF d.ok THEN d.data ELSE <<>>, rest |-> d.rest]
    ELSE IF atyp = 4 THEN
        LET r == ReadFull(s, 16)
        IN  [ok |-> r.ok, known |-> TRUE,
             host |-> IF r.ok THEN IPString(r.data) ELSE <<>>, rest |-> r.rest]
    ELSE [ok |-> TRUE, known |-> FALSE, host |-> <<>>, rest |-> s]

\* handleSOCKS5 from the request on (the method reply is already written)
Socks5Request(s) ==
    LET out == Socks5MethodReply
        r == ReadFull(s, 4)
    IN  IF ~r.ok THEN NoTunnel(out, {})
        ELSE IF r.data[1] # 5 THEN NoTunnel(out, {})
        ELSE
            LET command == r.data[2]
                atyp == r.data[4]
                a == Socks5Addr(r.rest, atyp)
            IN  IF ~a.known THEN NoTunnel(out \o Socks5AtypNotSupported, {})
                ELSE IF ~a.ok THEN NoTunnel(out, {})
                ELSE
                    LET pr == ReadFull(a.rest, 2)
                    IN  IF ~pr.ok THEN NoTunnel(out, {})
                        ELSE
                            LET port == pr.data[1] * 256 + pr.data[2]
                                target == IF atyp = 4
                                          THEN <<91>> \o a.host \o <<93, Colon>> \o Itoa(port)
                                          ELSE a.host \o <<Colon>> \o Itoa(port)
                            IN  IF command # 1
                                THEN NoTunnel(out \o Socks5CmdNotSupported, {})
                                ELSE ToTunnel(out, modeSOCKS5, target, <<>>, pr.rest,
                                              <<>>, logInfo("SOCKS5"))

\* handleSOCKS5(conn, clientAddr, firstByte); s: the bytes after the first
handleSOCKS5(s, firstByte) ==
    IF firstByte # 5 THEN NoTunnel(<<>>, logError("SOCKS5 version error", ""))
    ELSE
        LET r == ReadFull(s, 1)
        IN  IF ~r.ok THEN NoTunnel(<<>>, {})
            ELSE
                LET m == ReadFull(r.rest, r.data[1])
                IN  IF ~m.ok THEN NoTunnel(<<>>, {})
                    ELSE Socks5Request(m.rest)


\* the header loop of handleHTTP: [ok, lines, rest]; each line is kept
\* without its trailing CR / LF, the loop ends at the first empty line
RECURSIVE ReadHeaders(_, _)
ReadHeaders(s, lines) ==
    LET r == ReadString(s, LF)
    IN  IF ~r.ok THEN [ok |-> FALSE, lines |-> lines, rest |-> <<>>]
        ELSE LET line == TrimRight(r.line, {CR, LF})
             IN  IF line = <<>> THEN [ok |-> TRUE, lines |-> lines, rest |-> r.rest]
                 ELSE ReadHeaders(r.rest, Append(lines, line))

\* headers[key] of the map filled by the header loop (a later line with the
\* same key overwrites an earlier one; a missing key reads as "")
RECURSIVE HeaderGet(_, _)
HeaderGet(lines, key) ==
    IF Len(lines) = 0 THEN <<>>
    ELSE LET line == lines[Len(lines)]
             idx == Index(line, Colon)
         IN  IF idx > 0 /\ ToLower(TrimSpace(Take(line, idx))) = key
             THEN TrimSpace(Drop(line, idx + 1))
             ELSE HeaderGet(Take(lines, Len(lines) - 1), key)

\* ForwardHeaders that removes Proxy-Connection only
RECURSIVE ForwardHeaders_OneKey(_)
ForwardHeaders_OneKey(lines) ==
    IF Len(lines) = 0 THEN <<>>
    ELSE LET keyLower == ToLower(TrimSpace(SplitFirst(lines[1], Colon)))
         IN  (IF keyLower # KeyProxyConnection
              THEN lines[1] \o CRLF ELSE <<>>)
             \o ForwardHeaders_OneKey(Drop(lines, 1))

\* the header lines written to the forwarded request
RECURSIVE ForwardHeaders(_)
ForwardHeaders(lines) ==
    IF Len(lines) = 0 THEN <<>>
    ELSE LET keyLower == ToLower(TrimSpace(SplitFirst(lines[1], Colon)))
         IN  (IF keyLower # KeyProxyConnection /\ keyLower # KeyProxyAuthorization
              THEN lines[1] \o CRLF ELSE <<>>)
             \o ForwardHeaders(Drop(lines, 1))

MaxBody == 10 * 1024 * 1024

\* the body part of handleHTTP: [body, rest]
HTTPBody(lines, s) ==
    LET contentLength == HeaderGet(lines, KeyContentLength)
        length == Sscanf_d(contentLength)
    IN  IF contentLength # <<>> /\ length > 0 /\ length < MaxBody
        THEN LET b == ReadFull(s, length)
             IN  [body |-> IF b.ok THEN b.data ELSE <<>>, rest |-> b.rest]
        ELSE [body |-> <<>>, rest |-> s]

\* the forwarding branch of handleHTTP (GET, POST, ...)
HTTPForward(method, requestURL, httpVersion, lines, s) ==
    LET abs == HasPrefix(requestURL, SchemeHTTP)
        urlWithoutScheme == TrimPrefix(requestURL, SchemeHTTP)
        idx == Index(urlWithoutScheme, Slash)
        target0 == IF abs
                   THEN (IF idx > 0 THEN Take(urlWithoutScheme, idx) ELSE urlWithoutScheme)
                   ELSE HeaderGet(lines, KeyHost)
        path == IF abs
                THEN (IF idx > 0 THEN Drop(urlWithoutScheme, idx) ELSE <<Slash>>)
                ELSE requestURL
        logs == logInfo("HTTP-forward")
    IN  IF target0 = <<>> THEN NoTunnel(Resp400, logs)
        ELSE
            LET target == IF ~Contains(target0, Colon) THEN target0 \o Port80 ELSE target0
                b == HTTPBody(lines, s)
                firstFrame == method \o <<SP>> \o path \o <<SP>> \o httpVersion \o CRLF
                              \o ForwardHeaders(lines) \o CRLF \o b.body
            IN  ToTunnel(<<>>, modeHTTPProxy, target, firstFrame, <<>>, b.rest, logs)

\* handleHTTP whose method switch has no default branch
handleHTTP_NoDefault(s, firstByte) ==
    LET r == ReadString(<<firstByte>> \o s, LF)
    IN  IF ~r.ok THEN NoTunnel(<<>>, {})
        ELSE
            LET parts == Fields(r.line)
            IN  IF Len(parts) < 3 THEN NoTunnel(<<>>, {})
                ELSE
                    LET method == parts[1]
                        requestURL == parts[2]
                        httpVersion == parts[3]
                        h == ReadHeaders(r.rest, <<>>)
                    IN  IF ~h.ok THEN NoTunnel(<<>>, {})
                        ELSE IF method = M_CONNECT
                        THEN ToTunnel(<<>>, modeHTTPConnect, requestURL, <<>>, <<>>,
                                      h.rest, logInfo("HTTP-CONNECT"))
                        ELSE IF method \in ForwardMethods
                        THEN HTTPForward(method, requestURL, httpVersion, h.lines, h.rest)
                        ELSE NoTunnel(<<>>, {})

\* handleHTTP(conn, clientAddr, firstByte); s: the bytes after the first.
\* The buffered reader takes every byte that has arrived (requests here are
\* shorter than its 4096-byte buffer), so nothing is left on the socket.
handleHTTP(s, firstByte) ==
    LET r == ReadString(<<firstByte>> \o s, LF)
    IN  IF ~r.ok THEN NoTunnel(<<>>, {})
        ELSE
            LET parts == Fields(r.line)
            IN  IF Len(parts) < 3 THEN NoTunnel(<<>>, {})
                ELSE
                    LET method == parts[1]
                        requestURL == parts[2]
                        httpVersion == parts[3]
                        h == ReadHeaders(r.rest, <<>>)
                    IN  IF ~h.ok THEN NoTunnel(<<>>, {})
                        ELSE IF method = M_CONNECT
                        THEN ToTunnel(<<>>, modeHTTPConnect, requestURL, <<>>, <<>>,
                                      h.rest, logInfo("HTTP-CONNECT"))
                        ELSE IF method \in ForwardMethods
                        THEN HTTPForward(method, requestURL, httpVersion, h.lines, h.rest)
                        ELSE NoTunnel(Resp405, logInfo("HTTP unsupported method"))

\* a dispatch that leaves 'T' out of the HTTP letters
Dispatch_NoT(firstByte) ==
    IF firstByte = 5 THEN "socks5"
    ELSE IF firstByte \in HTTPSniffBytes \ {84} THEN "http"
    ELSE "drop"

\* the dispatch of handleConnection on the first byte
Dispatch(firstByte) ==
    IF firstByte = 5 THEN "socks5"
    ELSE IF firstByte \in HTTPSniffBytes THEN "http"
    ELSE "drop"

\* handleConnection after the first byte has been read
HandleFirstByte(firstByte, s) ==
    LET d == Dispatch(firstByte)
    IN  IF d = "socks5" THEN handleSOCKS5(s, firstByte)
        ELSE IF d = "http" THEN handleHTTP(s, firstByte)
        ELSE NoTunnel(<<>>, logError("unknown protocol", ""))

----------------------------------------------------------------------------
(* Connections *)

\* no message of the gateway has been read yet
AcceptDeadline == 30   \* handleConnection: conn.SetDeadline(time.Now().Add(30 * time.Second))
TickerPeriod == 10     \* handleTunnel: time.NewTicker(10 * time.Second)

\* the deadline of the client connection has passed: its reads and writes fail
DeadlinePassed(cn) == cn.deadline # 0 /\ cn.now >= cn.deadline

\* the PING frames among the frames written to a session
NumPings(out) == Cardinality({i \in 1..Len(out) : out[i].type = "ping"})

NoReply == [read |-> FALSE, err |-> FALSE, msg |-> <<>>]

\* a connection just returned by Accept; req: the bytes the client has sent
\* (at first those it delivers for the handshake); inp: those of them no read
\* has taken yet; reply: what
\* the first wsConn.ReadMessage() of handleTunnel returned; wsIn: the messages
\* the WS -> client goroutine has read, each with the success of its
\* conn.Write; of dialWebSocketWithECH: attempt, the loop counter; dials, the
\* calls of dialer.Dial; refreshes, the calls of refreshECH; derr, the error
\* of the last iteration (the one returned when the loop ends); tls, the
\* configuration of the last dial; via, what the gateway's side did in the
\* attempt that returned the session; now: the seconds passed since the
\* WebSocket session was dialled; deadline: the deadline of the client
\* connection on that clock (0: none); estAt, estPings: the time and the PINGs
\* sent when the tunnel was established; mu: the goroutine holding the mutex
\* of handleTunnel; inWrite: the goroutines inside wsConn.WriteMessage
NewConn(inp) ==
    [pc |-> "sniff", req |-> inp, inp |-> inp, first |-> -1, handler |-> "none", out |-> <<>>,
     mode |-> 0, target |-> <<>>, firstFrame |-> <<>>, residue |-> <<>>,
     closed |-> FALSE, eof |-> FALSE, ws |-> "none", attempt |-> 0, raw |-> <<>>,
     wsOut |-> <<>>, nIn |-> 0, ping |-> "none", c2w |-> "none", w2c |-> "none",
     done |-> 0, reply |-> NoReply, wsIn |-> <<>>,
     dials |-> 0, refreshes |-> 0, derr |-> "none", tls |-> NoTLS, via |-> "none",
     now |-> 0, deadline |-> AcceptDeadline, estAt |-> 0, estPings |-> 0,
     mu |-> "free", inWrite |-> {}]

\* listener.Accept() returns a connection; go c.handleConnection(conn)
AcceptConn(k, inp) ==
    /\ acc[k].pc = "accept"
    /\ lsn[acc[k].listener].open
    /\ conns' = Append(conns, NewConn(inp))
    /\ acc' = [acc EXCEPT ![k].pc = "top"]
    /\ UNCHANGED <<serverAddr, logCallback, lastQuery, running, listener, echList, lsn, call, log>>

\* handleConnection: read the first byte, dispatch, run the front end up to
\* the tunnel; without a tunnel the deferred conn.Close() runs
HandleConnection(c) ==
    /\ conns[c].pc = "sniff"
    /\ IF Len(conns[c].inp) = 0
       THEN /\ conns' = [conns EXCEPT ![c].pc = "closed", ![c].closed = TRUE]
            /\ log' = log
       ELSE LET firstByte == conns[c].inp[1]
                r == HandleFirstByte(firstByte, Drop(conns[c].inp, 1))
            IN  /\ conns' = [conns EXCEPT ![c] =
                        [@ EXCEPT !.first = firstByte,
                                  !.handler = Dispatch(firstByte),
                                  !.out = r.out,
                                  !.pc = IF r.tunnel THEN "dial" ELSE "closed",
                                  !.closed = ~r.tunnel,
                                  !.attempt = IF r.tunnel THEN 1 ELSE 0,
                                  !.mode = r.mode,
                                  !.target = r.target,
                                  !.firstFrame = r.firstFrame,
                                  !.inp = r.rest,
                                  !.residue = r.residue]]
                /\ log' = log \cup r.log
    /\ UNCHANGED <<serverAddr, logCallback, lastQuery, running, listener, echList, lsn, call, acc>>

----------------------------------------------------------------------------
(* Server address: NewProxyClient, parseServerAddr, ValidateServerAddr *)

\* strings.LastIndex with a one-byte separator: 0-based, -1 if absent
LastIndex(s, c) ==
    IF \E i \in 1..Len(s) : s[i] = c
    THEN (CHOOSE i \in 1..Len(s) : s[i] = c /\ \A j \in (i + 1)..Len(s) : s[j] # c) - 1
    ELSE -1

NoHostPort == [ok |-> FALSE, host |-> <<>>, port |-> <<>>]

\* net.SplitHostPort: [ok, host, port]
SplitHostPort(hostport) ==
    LET i == LastIndex(hostport, Colon)
        end == Index(hostport, 93)
        bracket == hostport[1] = 91
        host == IF bracket THEN SubSeq(hostport, 2, end) ELSE Take(hostport, i)
        j == IF bracket THEN 1 ELSE 0
        k == IF bracket THEN end + 1 ELSE 0
    IN  IF i < 0 THEN NoHostPort                                  \* missing port
        ELSE IF bracket /\ end < 0 THEN NoHostPort                \* missing ']'
        ELSE IF bracket /\ end + 1 # i THEN NoHostPort            \* missing port, too many colons
        ELSE IF ~bracket /\ Index(host, Colon) >= 0 THEN NoHostPort   \* too many colons
        ELSE IF Index(Drop(hostport, j), 91) >= 0 THEN NoHostPort     \* unexpected '['
        ELSE IF Index(Drop(hostport, k), 93) >= 0 THEN NoHostPort     \* unexpected ']'
        ELSE [ok |-> TRUE, host |-> host, port |-> Drop(hostport, i + 1)]

\* parseServerAddr: [ok, host, port, path]
parseServerAddr(addr) ==
    LET slashIdx == Index(addr, Slash)
        path == IF slashIdx # -1 THEN Drop(addr, slashIdx) ELSE <<Slash>>
        rest == IF slashIdx # -1 THEN Take(addr, slashIdx) ELSE addr
        hp == SplitHostPort(rest)
    IN  IF hp.ok THEN [ok |-> TRUE, host |-> hp.host, port |-> hp.port, path |-> path]
        ELSE [ok |-> FALSE, host |-> <<>>, port |-> <<>>, path |-> <<>>]

\* NewProxyClient on config.ServerAddr: whether a client is returned
NewProxyClient(addr) == addr # <<>>

\* ValidateServerAddr: whether nil is returned
ValidateServerAddr(addr) == addr # <<>> /\ parseServerAddr(addr).ok

\* the server address of the runs that do not vary it
DefaultServerAddr == <<97, 46, 105, 111, 58, 52, 52, 51>>   \* a.io:443

\* server addresses handed to the constructor and to ValidateServerAddr
ServerAddrInputs == {
    <<97, 46, 105, 111, 58, 52, 52, 51>>,   \* a.io:443
    <<97, 46, 105, 111, 58, 52, 52, 51, 47, 119, 115>>,   \* a.io:443/ws
    <<97, 46, 105, 111>>,   \* a.io
    <<97, 46, 105, 111, 47, 119, 115>>,   \* a.io/ws
    <<58, 52, 52, 51>>,   \* :443
    <<97, 46, 105, 111, 58>>,   \* a.io:
    <<91, 58, 58, 49, 93, 58, 52, 52, 51>>,   \* [::1]:443
    <<91, 58, 58, 49, 93>>,   \* [::1]
    <<58, 58, 49, 58, 52, 52, 51>>,   \* ::1:443
    <<91, 97, 46, 105, 111, 58, 52, 52, 51>>,   \* [a.io:443
    <<97, 93, 58, 52, 52, 51>>,   \* a]:443
    <<91, 58, 58, 49, 93, 120, 58, 52, 52, 51>>,   \* [::1]x:443
    <<91, 58, 58, 49, 93, 58, 58, 52, 52, 51>>,   \* [::1]::443
    <<47, 119, 115>>,   \* /ws
    <<>>   \* the empty string
    }

----------------------------------------------------------------------------
(* Tunnel engine: handleTunnel and dialWebSocketWithECH *)

DialRetries == 2    \* handleTunnel: c.dialWebSocketWithECH(2)

\* sendErrorResponse
ErrorResponse(mode) ==
    IF mode = modeSOCKS5 THEN Socks5HostUnreachable
    ELSE IF mode \in {modeHTTPConnect, modeHTTPProxy} THEN Resp502
    ELSE <<>>

\* sendSuccessResponse
SuccessResponse(mode) ==
    IF mode = modeSOCKS5 THEN Socks5Succeeded
    ELSE IF mode = modeHTTPConnect THEN Resp200
    ELSE <<>>

\* isNormalCloseError on the error texts of the model
isNormalCloseError(err) ==
    err \in {"EOF", ErrClosed, "broken pipe", "connection reset by peer",
             "normal closure"}

Frame(type, payload) == [type |-> type, payload |-> payload]

\* handleTunnel fails before the copy phase: the error response is written,
\* the deferred closes run, the front end logs the error
TunnelFailed(c, cn, err, respond, got) ==
    /\ conns' = [conns EXCEPT ![c] =
            [cn EXCEPT !.pc = "closed", !.closed = TRUE, !.reply = got,
                       !.out = IF respond THEN @ \o ErrorResponse(cn.mode) ELSE @,
                       !.ws = IF @ = "open" THEN "closed" ELSE @,
                       !.ping = IF @ = "run" THEN "stopped" ELSE @]]
    /\ log' = IF isNormalCloseError(err) THEN log
              ELSE log \cup logError("proxy failed", err)

TunnelFail(c, err, respond, got) == TunnelFailed(c, conns[c], err, respond, got)

\* what the gateway's side does with a connection attempt: it completes the
\* handshake, it rejects the ECH offered, or the attempt fails otherwise
DialOutcomes == {"ok", "ECH rejected", "dial error"}

\* a configuration that offers no ECH and admits TLS 1.2
buildTLSConfigWithECH_NoECH(list) ==
    [MinVersion |-> VersionTLS13 - 1, EncryptedClientHelloConfigList |-> <<>>]

\* buildTLSConfigWithECH
buildTLSConfigWithECH(list) ==
    [MinVersion |-> VersionTLS13, EncryptedClientHelloConfigList |-> list]

\* dialer.Dial under the configuration cfg: "ok" or the error. A client that
\* offers ECH fails the handshake when the server rejects it (the rejection
\* callback returns an error); a client with an empty list offers none and
\* connects in the clear
Dial(cfg, outcome) ==
    IF outcome = "ECH rejected" /\ cfg.EncryptedClientHelloConfigList = <<>>
    THEN "ok"
    ELSE outcome

\* the error returned after the loop of dialWebSocketWithECH
ErrMaxRetries == "connection failed, max retries reached"

\* strings.Contains(dialErr.Error(), "ECH") on the error texts of the model
IsECHError(err) == err \in {"ECH rejected"}

\* an iteration that retries after any dial error
DialAttempt_AlwaysRetry(maxRetries, attempt, outcome) ==
    LET e == getECHList
        cfg == buildTLSConfigWithECH(e.list)
        r == Dial(cfg, outcome)
    IN  IF ~parseServerAddr(serverAddr).ok
        THEN [next |-> "return", err |-> "invalid server address", dialed |-> FALSE,
              tls |-> NoTLS, log |-> {}]
        ELSE IF attempt > maxRetries
        THEN [next |-> "return", err |-> ErrMaxRetries, dialed |-> FALSE, tls |-> NoTLS,
              log |-> {}]
        ELSE IF ~e.ok
        THEN [next |-> IF attempt < maxRetries THEN "refresh" ELSE "return",
              err |-> "ECH config not loaded", dialed |-> FALSE, tls |-> NoTLS,
              log |-> {}]
        ELSE IF r = "ok"
        THEN [next |-> "ok", err |-> "none", dialed |-> TRUE, tls |-> cfg, log |-> {}]
        ELSE [next |-> "refresh", err |-> r, dialed |-> TRUE, tls |-> cfg,
              log |-> logInfo("ECH connection failed")]

\* one iteration of the retry loop of dialWebSocketWithECH(maxRetries), after
\* the parsing of the server address that precedes the loop, or the return
\* after the loop when attempt has passed maxRetries:
\* next: "ok" (the session is returned), "refresh" (refreshECH, then the next
\* iteration) or "return" (err is returned); dialed: dialer.Dial was called,
\* under the configuration tls
DialAttempt(maxRetries, attempt, outcome) ==
    LET e == getECHList
        cfg == buildTLSConfigWithECH(e.list)
        r == Dial(cfg, outcome)
    IN  IF ~parseServerAddr(serverAddr).ok
        THEN [next |-> "return", err |-> "invalid server address", dialed |-> FALSE,
              tls |-> NoTLS, log |-> {}]
        ELSE IF attempt > maxRetries
        THEN [next |-> "return", err |-> ErrMaxRetries, dialed |-> FALSE, tls |-> NoTLS,
              log |-> {}]
        ELSE IF ~e.ok
        THEN [next |-> IF attempt < maxRetries THEN "refresh" ELSE "return",
              err |-> "ECH config not loaded", dialed |-> FALSE, tls |-> NoTLS,
              log |-> {}]
        ELSE IF r = "ok"
        THEN [next |-> "ok", err |-> "none", dialed |-> TRUE, tls |-> cfg, log |-> {}]
        ELSE IF IsECHError(r) /\ attempt < maxRetries
        THEN [next |-> "refresh", err |-> r, dialed |-> TRUE, tls |-> cfg,
              log |-> logInfo("ECH connection failed")]
        ELSE [next |-> "return", err |-> r, dialed |-> TRUE, tls |-> cfg, log |-> {}]

\* TestConnection is called
TestConnection(t) ==
    /\ call[t].pc = "idle"
    /\ call' = [call EXCEPT ![t] =
           [IdleCall EXCEPT !.pc = "tech", !.op = "TestConnection", !.n = call[t].n + 1]]
    /\ UNCHANGED <<serverAddr, logCallback, lastQuery, running, listener, echList, lsn, acc, conns, log>>

\* TestConnection -> prepareECH: the DNS query and the decoding of its answer
TestQuery(t, q) ==
    /\ call[t].pc = "tech"
    /\ lastQuery' = IF prepareECH(q).ok THEN prepareECH(q).raw ELSE lastQuery
    /\ LET r == prepareECH(q)
       IN  IF r.ok
           THEN call' = [call EXCEPT ![t].pc = "tstore", ![t].raw = r.raw,
                                     ![t].resp = q.resp]
           ELSE call' = [Return(t, "EchError") EXCEPT ![t].err = r.err,
                                                       ![t].resp = q.resp]
    /\ UNCHANGED <<serverAddr, logCallback, running, listener, echList, lsn, acc, conns, log>>

\* TestConnection -> prepareECH: the store under echListMu
TestStore(t) ==
    /\ call[t].pc = "tstore"
    /\ echList' = call[t].raw
    /\ log' = log \cup logInfo("ECH config loaded")
    /\ call' = [call EXCEPT ![t].pc = "tdial", ![t].raw = <<>>, ![t].resp = <<>>]
    /\ UNCHANGED <<serverAddr, logCallback, lastQuery, running, listener, lsn, acc, conns>>

\* TestConnection -> dialWebSocketWithECH(1): its one iteration (with one
\* attempt no iteration asks for a refresh); the session is closed at once
TestDial(t, outcome) ==
    /\ call[t].pc = "tdial"
    /\ LET d == DialAttempt(1, 1, outcome)
           r == Return(t, IF d.next = "ok" THEN "ok" ELSE "DialError")
       IN  call' = [r EXCEPT ![t].dials = IF d.dialed THEN @ + 1 ELSE @,
                             ![t].tls = IF d.dialed THEN d.tls ELSE @,
                             ![t].derr = d.err,
                             ![t].via = IF d.next = "ok" THEN outcome ELSE @]
    /\ UNCHANGED <<serverAddr, logCallback, lastQuery, running, listener, echList, lsn, acc, conns, log>>

\* a call of ValidateServerAddr(a)
ValidateCall(t, a) ==
    /\ call[t].pc = "idle"
    /\ call' = [call EXCEPT ![t] =
           [IdleCall EXCEPT !.op = "ValidateServerAddr", !.n = call[t].n + 1,
                            !.arg = a,
                            !.ret = IF ValidateServerAddr(a) THEN "ok" ELSE "AddrError"]]
    /\ UNCHANGED <<serverAddr, logCallback, lastQuery, running, listener, echList, lsn, acc, conns, log>>

\* handleTunnel: one iteration of the retry loop of dialWebSocketWithECH(2)
TunnelDial(c, outcome) ==
    /\ conns[c].pc = "dial"
    /\ LET d == DialAttempt(DialRetries, conns[c].attempt, outcome)
           cn == [conns[c] EXCEPT !.dials = IF d.dialed THEN @ + 1 ELSE @,
                                  !.tls = IF d.dialed THEN d.tls ELSE @,
                                  !.derr = d.err]
       IN  IF d.next = "ok"
           THEN /\ conns' = [conns EXCEPT ![c] =
                       [cn EXCEPT !.pc = "ctl", !.ws = "open", !.ping = "run",
                                  !.via = outcome]]
                /\ log' = log
           ELSE IF d.next = "refresh"
           THEN /\ conns' = [conns EXCEPT ![c] =
                       [cn EXCEPT !.pc = "refresh", !.refreshes = @ + 1]]
                /\ log' = log \cup d.log \cup logInfo("refreshing ECH config")
           ELSE TunnelFailed(c, cn, d.err, TRUE, NoReply)
    /\ UNCHANGED <<serverAddr, logCallback, lastQuery, running, listener, echList, lsn, call, acc>>

\* refreshECH inside the retry loop: the query; its error is ignored
TunnelRefreshQuery(c, q) ==
    /\ conns[c].pc = "refresh"
    /\ lastQuery' = IF prepareECH(q).ok THEN prepareECH(q).raw ELSE lastQuery
    /\ LET r == prepareECH(q)
       IN  IF r.ok
           THEN conns' = [conns EXCEPT ![c].pc = "rstore", ![c].raw = r.raw]
           ELSE conns' = [conns EXCEPT ![c].pc = "dial", ![c].attempt = @ + 1]
    /\ UNCHANGED <<serverAddr, logCallback, running, listener, echList, lsn, call, acc, log>>

\* refreshECH inside the retry loop: the store, then the next iteration
TunnelRefreshStore(c) ==
    /\ conns[c].pc = "rstore"
    /\ echList' = conns[c].raw
    /\ log' = log \cup logInfo("ECH config loaded")
    /\ conns' = [conns EXCEPT ![c].pc = "dial", ![c].attempt = @ + 1, ![c].raw = <<>>]
    /\ UNCHANGED <<serverAddr, logCallback, lastQuery, running, listener, lsn, call, acc>>


PeekSize == 32768   \* handleTunnel: buffer := make([]byte, 32768)

\* TunnelControl that leaves the accept deadline on the client connection
TunnelControl_KeepDeadline(c, wok) ==
    /\ conns[c].pc = "ctl"
    /\ "main" \in conns[c].inWrite
    /\ LET cn == [conns[c] EXCEPT !.mu = "free", !.inWrite = @ \ {"main"}]
           peek == cn.firstFrame = <<>> /\ cn.mode = modeSOCKS5
           n == IF peek THEN Min(Len(cn.inp), PeekSize) ELSE 0
           firstFrame == IF n > 0 THEN Take(cn.inp, n) ELSE cn.firstFrame
           connectMsg == CtlPrefix \o cn.target \o <<Pipe>> \o firstFrame
       IN  IF wok
           THEN /\ conns' = [conns EXCEPT ![c] =
                       [cn EXCEPT !.pc = "await", !.firstFrame = firstFrame,
                                 !.inp = Drop(cn.inp, n),
                                 !.wsOut = Append(@, Frame("text", connectMsg))]]
                /\ log' = log
           ELSE TunnelFailed(c, cn, "broken pipe", TRUE, NoReply)
    /\ UNCHANGED <<serverAddr, logCallback, lastQuery, running, listener, echList, lsn, call, acc>>

\* TunnelControl that sends the control message as a BINARY frame
TunnelControl_Binary(c, wok) ==
    /\ conns[c].pc = "ctl"
    /\ "main" \in conns[c].inWrite
    /\ LET cn == [conns[c] EXCEPT !.mu = "free", !.inWrite = @ \ {"main"}]
           peek == cn.firstFrame = <<>> /\ cn.mode = modeSOCKS5
           n == IF peek THEN Min(Len(cn.inp), PeekSize) ELSE 0
           firstFrame == IF n > 0 THEN Take(cn.inp, n) ELSE cn.firstFrame
           connectMsg == CtlPrefix \o cn.target \o <<Pipe>> \o firstFrame
       IN  IF wok
           THEN /\ conns' = [conns EXCEPT ![c] =
                       [cn EXCEPT !.pc = "await", !.firstFrame = firstFrame,
                                 !.deadline = 0,
                                 !.inp = Drop(cn.inp, n),
                                 !.wsOut = Append(@, Frame("binary", connectMsg))]]
                /\ log' = log
           ELSE TunnelFailed(c, cn, "broken pipe", TRUE, NoReply)
    /\ UNCHANGED <<serverAddr, logCallback, lastQuery, running, listener, echList, lsn, call, acc>>

\* handleTunnel: conn.SetDeadline(time.Time{}), the opportunistic SOCKS5
\* read, then the control message
TunnelControl(c, wok) ==
    /\ conns[c].pc = "ctl"
    /\ "main" \in conns[c].inWrite
    /\ LET cn == [conns[c] EXCEPT !.mu = "free", !.inWrite = @ \ {"main"}]
           peek == cn.firstFrame = <<>> /\ cn.mode = modeSOCKS5
           n == IF peek THEN Min(Len(cn.inp), PeekSize) ELSE 0
           firstFrame == IF n > 0 THEN Take(cn.inp, n) ELSE cn.firstFrame
           connectMsg == CtlPrefix \o cn.target \o <<Pipe>> \o firstFrame
       IN  IF wok
           THEN /\ conns' = [conns EXCEPT ![c] =
                       [cn EXCEPT !.pc = "await", !.firstFrame = firstFrame,
                                 !.deadline = 0,
                                 !.inp = Drop(cn.inp, n),
                                 !.wsOut = Append(@, Frame("text", connectMsg))]]
                /\ log' = log
           ELSE TunnelFailed(c, cn, "broken pipe", TRUE, NoReply)
    /\ UNCHANGED <<serverAddr, logCallback, lastQuery, running, listener, echList, lsn, call, acc>>

\* what the first wsConn.ReadMessage() returns: a read error or a message
GatewayReplies ==
    {[err |-> TRUE, msg |-> <<>>],
     [err |-> FALSE, msg |-> TxtCONNECTED],
     [err |-> FALSE, msg |-> TxtERROR \o <<110, 111>>],    \* "ERROR:no"
     [err |-> FALSE, msg |-> <<79, 75>>]}                \* "OK"

\* TunnelReply without the comparison with "CONNECTED"
TunnelReply_AnyText(c, m, wok) ==
    /\ conns[c].pc = "await"
    /\ LET got == [read |-> TRUE, err |-> m.err, msg |-> m.msg]
       IN  IF m.err THEN TunnelFail(c, "connection reset by peer", TRUE, got)
           ELSE IF HasPrefix(m.msg, TxtERROR) THEN TunnelFail(c, "gateway error", TRUE, got)
           ELSE IF ~wok /\ SuccessResponse(conns[c].mode) # <<>>
                THEN TunnelFail(c, "broken pipe", FALSE, got)
           ELSE /\ conns' = [conns EXCEPT ![c] =
                       [@ EXCEPT !.pc = "copy", !.c2w = "run", !.w2c = "run",
                                 !.reply = got,
                                 !.estAt = conns[c].now,
                                 !.estPings = NumPings(conns[c].wsOut),
                                 !.out = @ \o SuccessResponse(conns[c].mode)]]
                /\ log' = log \cup logInfo("connected")
    /\ UNCHANGED <<serverAddr, logCallback, lastQuery, running, listener, echList, lsn, call, acc>>

\* handleTunnel: the gateway's answer and the response to the client; wok:
\* whether the write of the success response succeeds
TunnelReply(c, m, wok) ==
    /\ conns[c].pc = "await"
    /\ LET got == [read |-> TRUE, err |-> m.err, msg |-> m.msg]
       IN  IF m.err THEN TunnelFail(c, "connection reset by peer", TRUE, got)
           ELSE IF HasPrefix(m.msg, TxtERROR) THEN TunnelFail(c, "gateway error", TRUE, got)
           ELSE IF m.msg # TxtCONNECTED THEN TunnelFail(c, "unexpected response", TRUE, got)
           ELSE IF ~wok /\ SuccessResponse(conns[c].mode) # <<>>
                THEN TunnelFail(c, "broken pipe", FALSE, got)
           ELSE /\ conns' = [conns EXCEPT ![c] =
                       [@ EXCEPT !.pc = "copy", !.c2w = "run", !.w2c = "run",
                                 !.reply = got,
                                 !.estAt = conns[c].now,
                                 !.estPings = NumPings(conns[c].wsOut),
                                 !.out = @ \o SuccessResponse(conns[c].mode)]]
                /\ log' = log \cup logInfo("connected")
    /\ UNCHANGED <<serverAddr, logCallback, lastQuery, running, listener, echList, lsn, call, acc>>

\* a goroutine of the session has reached one of its writes and takes the
\* mutex: the keepalive goroutine on a tick, handleTunnel for the control
\* message, the client -> WS goroutine when its conn.Read has returned
Writers == {"ping", "main", "c2w"}

AtWrite(cn, w) ==
    IF w = "ping" THEN cn.ping = "run" /\ cn.ws = "open"
    ELSE IF w = "main" THEN cn.pc = "ctl"
    ELSE /\ cn.c2w = "run"
         /\ \/ cn.closed
            \/ DeadlinePassed(cn)
            \/ Len(cn.inp) > 0
            \/ cn.eof

\* Lock that does not wait for the mutex
Lock_NoMutex(c, w) ==
    /\ w \notin conns[c].inWrite
    /\ AtWrite(conns[c], w)
    /\ conns' = [conns EXCEPT ![c].mu = w, ![c].inWrite = @ \cup {w}]
    /\ UNCHANGED <<serverAddr, logCallback, lastQuery, running, listener, echList, lsn, call, acc, log>>

\* mu.Lock(), then the call of wsConn.WriteMessage
Lock(c, w) ==
    /\ conns[c].mu = "free"
    /\ w \notin conns[c].inWrite
    /\ AtWrite(conns[c], w)
    /\ conns' = [conns EXCEPT ![c].mu = w, ![c].inWrite = @ \cup {w}]
    /\ UNCHANGED <<serverAddr, logCallback, lastQuery, running, listener, echList, lsn, call, acc, log>>

\* the keepalive goroutine: the PING written on a tick, then mu.Unlock()
Ping(c) ==
    /\ "ping" \in conns[c].inWrite
    /\ conns' = [conns EXCEPT ![c] =
           [@ EXCEPT !.mu = "free", !.inWrite = @ \ {"ping"},
                     !.wsOut = IF conns[c].ws = "open"
                               THEN Append(@, Frame("ping", <<>>)) ELSE @]]
    /\ UNCHANGED <<serverAddr, logCallback, lastQuery, running, listener, echList, lsn, call, acc, log>>

\* the client delivers more bytes
ClientSend(c, data) ==
    /\ conns[c].pc = "copy"
    /\ ~conns[c].eof
    /\ conns' = [conns EXCEPT ![c].inp = @ \o data, ![c].req = @ \o data]
    /\ UNCHANGED <<serverAddr, logCallback, lastQuery, running, listener, echList, lsn, call, acc, log>>

\* the client closes its side
ClientClose(c) ==
    /\ conns[c].pc = "copy"
    /\ ~conns[c].eof
    /\ conns' = [conns EXCEPT ![c].eof = TRUE]
    /\ UNCHANGED <<serverAddr, logCallback, lastQuery, running, listener, echList, lsn, call, acc, log>>

\* client -> WS goroutine: a read returns bytes, sent as one BINARY frame;
\* wok: whether the write succeeds
CopyClientToWS(c, wok) ==
    /\ conns[c].c2w = "run"
    /\ "c2w" \in conns[c].inWrite
    /\ ~conns[c].closed
    /\ ~DeadlinePassed(conns[c])
    /\ Len(conns[c].inp) > 0
    /\ LET n == Min(Len(conns[c].inp), PeekSize)
       IN  IF wok /\ conns[c].ws = "open"
           THEN conns' = [conns EXCEPT ![c] =
                   [@ EXCEPT !.inp = Drop(@, n),
                             !.mu = "free", !.inWrite = @ \ {"c2w"},
                             !.wsOut = Append(@, Frame("binary", Take(conns[c].inp, n)))]]
           ELSE conns' = [conns EXCEPT ![c] =
                   [@ EXCEPT !.inp = Drop(@, n), !.c2w = "done", !.done = @ + 1,
                             !.mu = "free", !.inWrite = @ \ {"c2w"}]]
    /\ UNCHANGED <<serverAddr, logCallback, lastQuery, running, listener, echList, lsn, call, acc, log>>

\* CopyClientEOF that signals completion without writing "CLOSE"
CopyClientEOF_NoClose(c) ==
    /\ conns[c].c2w = "run"
    /\ "c2w" \in conns[c].inWrite
    /\ \/ conns[c].closed
       \/ conns[c].eof /\ Len(conns[c].inp) = 0
       \/ DeadlinePassed(conns[c])
    /\ conns' = [conns EXCEPT ![c] = [@ EXCEPT !.c2w = "done", !.done = @ + 1,
                                               !.mu = "free", !.inWrite = @ \ {"c2w"}]]
    /\ UNCHANGED <<serverAddr, logCallback, lastQuery, running, listener, echList, lsn, call, acc, log>>

\* client -> WS goroutine: the read fails (client EOF, conn closed by the
\* end of the session, or its deadline passed); TEXT "CLOSE" is written,
\* completion is signalled
CopyClientEOF(c) ==
    /\ conns[c].c2w = "run"
    /\ "c2w" \in conns[c].inWrite
    /\ \/ conns[c].closed
       \/ conns[c].eof /\ Len(conns[c].inp) = 0
       \/ DeadlinePassed(conns[c])
    /\ conns' = [conns EXCEPT ![c] =
           [@ EXCEPT !.c2w = "done", !.done = @ + 1,
                     !.mu = "free", !.inWrite = @ \ {"c2w"},
                     !.wsOut = IF conns[c].ws = "open"
                               THEN Append(@, Frame("text", TxtCLOSE)) ELSE @]]
    /\ UNCHANGED <<serverAddr, logCallback, lastQuery, running, listener, echList, lsn, call, acc, log>>

\* messages the gateway sends during the copy phase
GatewayMsgs ==
    {Frame("text", TxtCLOSE), Frame("binary", TxtCLOSE),
     Frame("binary", <<0, 255>>), Frame("text", <<104, 105>>)}

\* CopyWSToClient that compares the payload with "CLOSE" whatever the type
CopyWSToClient_AnyType(c, m, wok) ==
    /\ conns[c].w2c = "run"
    /\ conns[c].ws = "open"
    /\ LET got(w) == [type |-> m.type, payload |-> m.payload, wok |-> w]
       IN  IF m.payload = TxtCLOSE
           THEN conns' = [conns EXCEPT ![c].w2c = "done", ![c].done = @ + 1,
                                       ![c].wsIn = Append(@, got(TRUE))]
           ELSE IF wok /\ ~conns[c].closed
           THEN conns' = [conns EXCEPT ![c].out = @ \o m.payload, ![c].nIn = @ + 1,
                                       ![c].wsIn = Append(@, got(TRUE))]
           ELSE conns' = [conns EXCEPT ![c].w2c = "done", ![c].done = @ + 1,
                                       ![c].wsIn = Append(@, got(FALSE))]
    /\ UNCHANGED <<serverAddr, logCallback, lastQuery, running, listener, echList, lsn, call, acc, log>>

\* WS -> client goroutine: one message is read; wok: whether the write to
\* the client succeeds
CopyWSToClient(c, m, wok) ==
    /\ conns[c].w2c = "run"
    /\ conns[c].ws = "open"
    /\ LET got(w) == [type |-> m.type, payload |-> m.payload, wok |-> w]
       IN  IF m.type = "text" /\ m.payload = TxtCLOSE
           THEN conns' = [conns EXCEPT ![c].w2c = "done", ![c].done = @ + 1,
                                       ![c].wsIn = Append(@, got(TRUE))]
           ELSE IF wok /\ ~conns[c].closed
           THEN conns' = [conns EXCEPT ![c].out = @ \o m.payload, ![c].nIn = @ + 1,
                                       ![c].wsIn = Append(@, got(TRUE))]
           ELSE conns' = [conns EXCEPT ![c].w2c = "done", ![c].done = @ + 1,
                                       ![c].wsIn = Append(@, got(FALSE))]
    /\ UNCHANGED <<serverAddr, logCallback, lastQuery, running, listener, echList, lsn, call, acc, log>>

\* WS -> client goroutine: ReadMessage fails (WS error, or wsConn closed by
\* the end of the session)
CopyWSError(c) ==
    /\ conns[c].w2c = "run"
    /\ conns' = [conns EXCEPT ![c].w2c = "done", ![c].done = @ + 1]
    /\ UNCHANGED <<serverAddr, logCallback, lastQuery, running, listener, echList, lsn, call, acc, log>>

\* TunnelFinish that leaves the client connection open
TunnelFinish_KeepClient(c) ==
    /\ conns[c].pc = "copy"
    /\ conns[c].done >= 1
    /\ conns' = [conns EXCEPT ![c] =
           [@ EXCEPT !.pc = "closed", !.done = @ - 1,
                     !.ws = "closed", !.ping = "stopped"]]
    /\ log' = log \cup logInfo("disconnected")
    /\ UNCHANGED <<serverAddr, logCallback, lastQuery, running, listener, echList, lsn, call, acc>>

\* handleTunnel: <-done, then the deferred close(stopPing), wsConn.Close()
\* and, in handleConnection, conn.Close()
TunnelFinish(c) ==
    /\ conns[c].pc = "copy"
    /\ conns[c].done >= 1
    /\ conns' = [conns EXCEPT ![c] =
           [@ EXCEPT !.pc = "closed", !.done = @ - 1, !.closed = TRUE,
                     !.ws = "closed", !.ping = "stopped"]]
    /\ log' = log \cup logInfo("disconnected")
    /\ UNCHANGED <<serverAddr, logCallback, lastQuery, running, listener, echList, lsn, call, acc>>

\* the ticker of the keepalive goroutine has fired more often than PINGs
\* were written
TickDue(c) == NumPings(conns[c].wsOut) < conns[c].now \div TickerPeriod

\* TimeStep seconds pass on a session. A tick that is due is served first,
\* and so is a read whose deadline has passed: the goroutines are scheduled
\* within TimeStep seconds.
Advance(c) ==
    /\ conns[c].pc \in {"ctl", "await", "copy"}
    /\ conns[c].now + TimeStep <= MaxTime
    /\ ~(conns[c].ping = "run" /\ TickDue(c))
    /\ ~(conns[c].c2w = "run" /\ DeadlinePassed(conns[c]))
    /\ conns' = [conns EXCEPT ![c].now = @ + TimeStep]
    /\ UNCHANGED <<serverAddr, logCallback, lastQuery, running, listener, echList, lsn, call, acc, log>>

----------------------------------------------------------------------------
(* What clients send *)

\* HTTP requests (complete, truncated, malformed, unsupported), as delivered
HTTPInputs == {
    \* CONNECT example.com:443 HTTP/1.1\r\nHost: example.com:443\r\n\r\n
      <<67, 79, 78, 78, 69, 67, 84, 32, 101, 120, 97, 109, 112, 108, 101, 46, 99, 111,
        109, 58, 52, 52, 51, 32, 72, 84, 84, 80, 47, 49, 46, 49, 13, 10, 72, 111, 115,
        116, 58, 32, 101, 120, 97, 109, 112, 108, 101, 46, 99, 111, 109, 58, 52, 52, 51,
        13, 10, 13, 10>>,
    \* CONNECT a.io:443 HTTP/1.1\r\n\r\n\x16\x03
      <<67, 79, 78, 78, 69, 67, 84, 32, 97, 46, 105, 111, 58, 52, 52, 51, 32, 72, 84, 84,
        80, 47, 49, 46, 49, 13, 10, 13, 10, 22, 3>>,
    \* CONNECT a.io:443\r\n\r\n
      <<67, 79, 78, 78, 69, 67, 84, 32, 97, 46, 105, 111, 58, 52, 52, 51, 13, 10, 13, 10>>,
    \* GET http://example.com/path HTTP/1.1\r\nHost: example.com\r\nProxy-Connection: keep-alive\r\n\r\n
      <<71, 69, 84, 32, 104, 116, 116, 112, 58, 47, 47, 101, 120, 97, 109, 112, 108, 101,
        46, 99, 111, 109, 47, 112, 97, 116, 104, 32, 72, 84, 84, 80, 47, 49, 46, 49, 13,
        10, 72, 111, 115, 116, 58, 32, 101, 120, 97, 109, 112, 108, 101, 46, 99, 111,
        109, 13, 10, 80, 114, 111, 120, 121, 45, 67, 111, 110, 110, 101, 99, 116, 105,
        111, 110, 58, 32, 107, 101, 101, 112, 45, 97, 108, 105, 118, 101, 13, 10, 13, 10>>,
    \* GET / HTTP/1.1\r\nHost: a.io\r\n\r\n
      <<71, 69, 84, 32, 47, 32, 72, 84, 84, 80, 47, 49, 46, 49, 13, 10, 72, 111, 115,
        116, 58, 32, 97, 46, 105, 111, 13, 10, 13, 10>>,
    \* GET / HTTP/1.1\r\n\r\n
      <<71, 69, 84, 32, 47, 32, 72, 84, 84, 80, 47, 49, 46, 49, 13, 10, 13, 10>>,
    \* GET /\r\n\r\n
      <<71, 69, 84, 32, 47, 13, 10, 13, 10>>,
    \* GET\r\n
      <<71, 69, 84, 13, 10>>,
    \* GET / HTTP/1.1\r\nHost: a.io\r\n
      <<71, 69, 84, 32, 47, 32, 72, 84, 84, 80, 47, 49, 46, 49, 13, 10, 72, 111, 115,
        116, 58, 32, 97, 46, 105, 111, 13, 10>>,
    \* GET / HTTP/1.1
      <<71, 69, 84, 32, 47, 32, 72, 84, 84, 80, 47, 49, 46, 49>>,
    \* GET http:// HTTP/1.1\r\n\r\n
      <<71, 69, 84, 32, 104, 116, 116, 112, 58, 47, 47, 32, 72, 84, 84, 80, 47, 49, 46,
        49, 13, 10, 13, 10>>,
    \* OPTIONS * HTTP/1.1\r\nAccept: x\r\n\r\n
      <<79, 80, 84, 73, 79, 78, 83, 32, 42, 32, 72, 84, 84, 80, 47, 49, 46, 49, 13, 10,
        65, 99, 99, 101, 112, 116, 58, 32, 120, 13, 10, 13, 10>>,
    \* POST http://a.io:8080/u HTTP/1.0\r\nContent-Length: 2\r\nproxy-authorization: k\r\n\r\nhi!
      <<80, 79, 83, 84, 32, 104, 116, 116, 112, 58, 47, 47, 97, 46, 105, 111, 58, 56, 48,
        56, 48, 47, 117, 32, 72, 84, 84, 80, 47, 49, 46, 48, 13, 10, 67, 111, 110, 116,
        101, 110, 116, 45, 76, 101, 110, 103, 116, 104, 58, 32, 50, 13, 10, 112, 114,
        111, 120, 121, 45, 97, 117, 116, 104, 111, 114, 105, 122, 97, 116, 105, 111, 110,
        58, 32, 107, 13, 10, 13, 10, 104, 105, 33>>,
    \* PUT /u HTTP/1.1\r\nHOST: a.io\r\nContent-Length: 0\r\n\r\n
      <<80, 85, 84, 32, 47, 117, 32, 72, 84, 84, 80, 47, 49, 46, 49, 13, 10, 72, 79, 83,
        84, 58, 32, 97, 46, 105, 111, 13, 10, 67, 111, 110, 116, 101, 110, 116, 45, 76,
        101, 110, 103, 116, 104, 58, 32, 48, 13, 10, 13, 10>>,
    \* DELETE /u HTTP/1.1\r\nhost:b\r\n\r\n
      <<68, 69, 76, 69, 84, 69, 32, 47, 117, 32, 72, 84, 84, 80, 47, 49, 46, 49, 13, 10,
        104, 111, 115, 116, 58, 98, 13, 10, 13, 10>>,
    \* GET http:///x HTTP/1.1\r\nHost: a.io\r\n\r\n
      <<71, 69, 84, 32, 104, 116, 116, 112, 58, 47, 47, 47, 120, 32, 72, 84, 84, 80, 47,
        49, 46, 49, 13, 10, 72, 111, 115, 116, 58, 32, 97, 46, 105, 111, 13, 10, 13, 10>>,
    \* GET / HTTP/1.1\nHost: a.io\r\nProxy-Connection : x\r\nX: 1\r\r\n\r\n
      <<71, 69, 84, 32, 47, 32, 72, 84, 84, 80, 47, 49, 46, 49, 10, 72, 111, 115, 116,
        58, 32, 97, 46, 105, 111, 13, 10, 80, 114, 111, 120, 121, 45, 67, 111, 110,
        110, 101, 99, 116, 105, 111, 110, 32, 58, 32, 120, 13, 10, 88, 58, 32, 49, 13,
        13, 10, 13, 10>>,
    \* POST /u HTTP/1.1\r\nHost: a.io\r\nContent-Length: abc\r\n\r\nhi
      <<80, 79, 83, 84, 32, 47, 117, 32, 72, 84, 84, 80, 47, 49, 46, 49, 13, 10, 72, 111,
        115, 116, 58, 32, 97, 46, 105, 111, 13, 10, 67, 111, 110, 116, 101, 110, 116, 45,
        76, 101, 110, 103, 116, 104, 58, 32, 97, 98, 99, 13, 10, 13, 10, 104, 105>>,
    \* POST /u HTTP/1.1\r\nHost: a.io\r\nContent-Length: 10485760\r\n\r\nhi
      <<80, 79, 83, 84, 32, 47, 117, 32, 72, 84, 84, 80, 47, 49, 46, 49, 13, 10, 72, 111,
        115, 116, 58, 32, 97, 46, 105, 111, 13, 10, 67, 111, 110, 116, 101, 110, 116, 45,
        76, 101, 110, 103, 116, 104, 58, 32, 49, 48, 52, 56, 53, 55, 54, 48, 13, 10, 13, 10,
        104, 105>>,
    \* POST /u HTTP/1.1\r\nHost: a.io\r\nContent-Length: 3\r\n\r\nabc
      <<80, 79, 83, 84, 32, 47, 117, 32, 72, 84, 84, 80, 47, 49, 46, 49, 13, 10, 72, 111,
        115, 116, 58, 32, 97, 46, 105, 111, 13, 10, 67, 111, 110, 116, 101, 110, 116, 45,
        76, 101, 110, 103, 116, 104, 58, 32, 51, 13, 10, 13, 10, 97, 98, 99>>,
    \* HEAD http://a.io HTTP/1.1\r\n\r\n
      <<72, 69, 65, 68, 32, 104, 116, 116, 112, 58, 47, 47, 97, 46, 105, 111, 32, 72, 84,
        84, 80, 47, 49, 46, 49, 13, 10, 13, 10>>,
    \* PATCH /u HTTP/1.1\r\nHost: a.io\r\nContent-Length: 5\r\n\r\nhi
      <<80, 65, 84, 67, 72, 32, 47, 117, 32, 72, 84, 84, 80, 47, 49, 46, 49, 13, 10, 72,
        111, 115, 116, 58, 32, 97, 46, 105, 111, 13, 10, 67, 111, 110, 116, 101, 110,
        116, 45, 76, 101, 110, 103, 116, 104, 58, 32, 53, 13, 10, 13, 10, 104, 105>>,
    \* TRACE / HTTP/1.1\r\nHost: a.io\r\n\r\n
      <<84, 82, 65, 67, 69, 32, 47, 32, 72, 84, 84, 80, 47, 49, 46, 49, 13, 10, 72, 111,
        115, 116, 58, 32, 97, 46, 105, 111, 13, 10, 13, 10>>,
    \* TEST / HTTP/1.1\r\n\r\n
      <<84, 69, 83, 84, 32, 47, 32, 72, 84, 84, 80, 47, 49, 46, 49, 13, 10, 13, 10>>,
    \* PROPFIND / HTTP/1.1\r\nHost: a.io\r\n\r\n
      <<80, 82, 79, 80, 70, 73, 78, 68, 32, 47, 32, 72, 84, 84, 80, 47, 49, 46, 49, 13,
        10, 72, 111, 115, 116, 58, 32, 97, 46, 105, 111, 13, 10, 13, 10>>,
    \* Get / HTTP/1.1\r\nHost: a.io\r\n\r\n
      <<71, 101, 116, 32, 47, 32, 72, 84, 84, 80, 47, 49, 46, 49, 13, 10, 72, 111, 115,
        116, 58, 32, 97, 46, 105, 111, 13, 10, 13, 10>>,
    \* OPTION / HTTP/1.1\r\n\r\n
      <<79, 80, 84, 73, 79, 78, 32, 47, 32, 72, 84, 84, 80, 47, 49, 46, 49, 13, 10, 13,
        10>>,
    \* PRI /\r\n\r\n
      <<80, 82, 73, 32, 47, 13, 10, 13, 10>>,
    \* FOO / HTTP/1.1\r\n\r\n
      <<70, 79, 79, 32, 47, 32, 72, 84, 84, 80, 47, 49, 46, 49, 13, 10, 13, 10>>,
    \* get / HTTP/1.1\r\nHost: a.io\r\n\r\n
      <<103, 101, 116, 32, 47, 32, 72, 84, 84, 80, 47, 49, 46, 49, 13, 10, 72, 111, 115,
        116, 58, 32, 97, 46, 105, 111, 13, 10, 13, 10>>,
    \* \r\n\r\n
      <<13, 10, 13, 10>>
    }

\* SOCKS5 exchanges (greeting and request, as delivered) and other first bytes
SOCKSInputs == {
    \* greeting, CONNECT a.io:443
      <<5, 1, 0, 5, 1, 0, 3, 4, 97, 46, 105, 111, 1, 187>>,
    \* CONNECT a.io:80, two payload bytes
      <<5, 1, 0, 5, 1, 0, 3, 4, 97, 46, 105, 111, 0, 80, 22, 3>>,
    \* CONNECT 10.0.0.1:8080
      <<5, 2, 0, 2, 5, 1, 0, 1, 10, 0, 0, 1, 31, 144>>,
    \* CONNECT [::1]:443
      <<5, 1, 0, 5, 1, 0, 4, 0, 0, 0, 0, 0, 0, 0, 0, 0, 0, 0, 0, 0, 0, 0, 1, 1, 187>>,
    \* CONNECT, ATYP 4, ::ffff:10.0.0.1 port 443
      <<5, 1, 0, 5, 1, 0, 4, 0, 0, 0, 0, 0, 0, 0, 0, 0, 0, 255, 255, 10, 0, 0, 1, 1, 187>>,
    \* CONNECT, ATYP 4, 2001:db8::1 port 80
      <<5, 1, 0, 5, 1, 0, 4, 32, 1, 13, 184, 0, 0, 0, 0, 0, 0, 0, 0, 0, 0, 0, 1, 0, 80>>,
    \* BIND
      <<5, 1, 0, 5, 2, 0, 1, 10, 0, 0, 1, 0, 80>>,
    \* UDP ASSOCIATE, unknown ATYP
      <<5, 1, 0, 5, 3, 0, 9, 10, 0>>,
    \* CONNECT, unknown ATYP
      <<5, 1, 0, 5, 1, 0, 9>>,
    \* request with VER 4
      <<5, 1, 0, 4, 1, 0, 1, 10, 0, 0, 1, 0, 80>>,
    \* truncated domain
      <<5, 1, 0, 5, 1, 0, 3, 4, 97>>,
    \* truncated methods
      <<5, 3, 0>>,
    \* version byte only
      <<5>>,
    \* SOCKS4
      <<4, 1, 0, 80, 10, 0, 0, 1, 0>>,
    \* NUL
      <<0>>,
    \* TLS ClientHello
      <<22, 3, 1>>
    }

\* every first byte, followed by the rest of a request line and header block
ByteInputs == {<<b>> \o <<69, 84, 32, 47, 32, 72, 84, 84, 80, 47, 49, 46, 49, 13, 10, 72, 111, 115, 116, 58, 32, 97, 13, 10, 13, 10>> : b \in 0..255}   \* b, "ET / HTTP/1.1\r\nHost: a\r\n\r\n"

\* a first byte of no protocol
DropInputs == {<<88>>}   \* X

\* the connections of the tunnel runs
FewInputs == {
    \* SOCKS5 CONNECT a.io:80 and two payload bytes
      <<5, 1, 0, 5, 1, 0, 3, 4, 97, 46, 105, 111, 0, 80, 22, 3>>,
    \* CONNECT a.io:443 HTTP/1.1\r\n\r\n\x16\x03
      <<67, 79, 78, 78, 69, 67, 84, 32, 97, 46, 105, 111, 58, 52, 52, 51, 32, 72, 84, 84,
        80, 47, 49, 46, 49, 13, 10, 13, 10, 22, 3>>,
    \* GET http://a.io/ HTTP/1.1\r\n\r\n
      <<71, 69, 84, 32, 104, 116, 116, 112, 58, 47, 47, 97, 46, 105, 111, 47, 32, 72, 84,
        84, 80, 47, 49, 46, 49, 13, 10, 13, 10>>,
    \* X
      <<88>>}

\* the connections of the copy runs
CopyInputs == {
    \* SOCKS5 CONNECT a.io:443
      <<5, 1, 0, 5, 1, 0, 3, 4, 97, 46, 105, 111, 1, 187>>,
    \* GET http://a.io/ HTTP/1.1\r\n\r\n
      <<71, 69, 84, 32, 104, 116, 116, 112, 58, 47, 47, 97, 46, 105, 111, 47, 32, 72, 84,
        84, 80, 47, 49, 46, 49, 13, 10, 13, 10>>}

AllInputs == HTTPInputs \cup SOCKSInputs \cup ByteInputs

\* the connections of the control-message runs
CtlInputs == {
    \* SOCKS5 CONNECT a.io:80 and two payload bytes
      <<5, 1, 0, 5, 1, 0, 3, 4, 97, 46, 105, 111, 0, 80, 22, 3>>,
    \* SOCKS5 CONNECT, domain "a|b", port 443
      <<5, 1, 0, 5, 1, 0, 3, 3, 97, 124, 98, 1, 187>>,
    \* CONNECT a.io:443 HTTP/1.1\r\n\r\n\x16\x03
      <<67, 79, 78, 78, 69, 67, 84, 32, 97, 46, 105, 111, 58, 52, 52, 51, 32, 72, 84, 84,
        80, 47, 49, 46, 49, 13, 10, 13, 10, 22, 3>>,
    \* CONNECT a|b:443 HTTP/1.1\r\n\r\n
      <<67, 79, 78, 78, 69, 67, 84, 32, 97, 124, 98, 58, 52, 52, 51, 32, 72, 84, 84,
        80, 47, 49, 46, 49, 13, 10, 13, 10>>,
    \* GET http://a.io/ HTTP/1.1\r\n\r\n
      <<71, 69, 84, 32, 104, 116, 116, 112, 58, 47, 47, 97, 46, 105, 111, 47, 32, 72, 84,
        84, 80, 47, 49, 46, 49, 13, 10, 13, 10>>}

\* what a client sends in one write during the copy phase
ClientData == {<<1>>, <<2, 3>>}

----------------------------------------------------------------------------
(* Log sinks *)

\* the callbacks an embedder installs ("nil": none)
LogCallbacks == {"nil", "f1"}

\* NewProxyClient: a core client, its logCallback nil, no wrapper around it
NoLogCallback == [client |-> "nil", android |-> "nil", mu |-> 0, wrapped |-> FALSE]

\* NewAndroidProxyClient: the core client's logCallback is the closure that
\* forwards to AndroidProxyClient.logCallback, which is nil; mu is free
NewAndroidProxyClient ==
    [client |-> "closure", android |-> "nil", mu |-> 0, wrapped |-> TRUE]

\* ProxyClient.SetLogCallback is called: the goroutine is about to assign
SetLogCallback(t, f) ==
    /\ call[t].pc = "idle"
    /\ ~logCallback.wrapped
    /\ call' = [call EXCEPT ![t].pc = "setcb", ![t].op = "SetLogCallback",
                            ![t].n = @ + 1, ![t].cb = f, ![t].ret = "none", ![t].err = "", ![t].resp = <<>>]
    /\ UNCHANGED <<serverAddr, logCallback, lastQuery, running, listener, echList, lsn, acc, conns, log>>

\* ProxyClient.SetLogCallback: c.logCallback = callback, no lock held
SetLogCallbackWrite(t) ==
    /\ call[t].pc = "setcb"
    /\ logCallback' = [logCallback EXCEPT !.client = call[t].cb]
    /\ call' = Return(t, "ok")
    /\ UNCHANGED <<serverAddr, lastQuery, running, listener, echList, lsn, acc, conns, log>>

\* AndroidProxyClient.SetLogCallback is called: a.mu.Lock()
AndroidSetLogCallback(t, f) ==
    /\ call[t].pc = "idle"
    /\ logCallback.wrapped
    /\ logCallback.mu = 0
    /\ logCallback' = [logCallback EXCEPT !.mu = t]
    /\ call' = [call EXCEPT ![t].pc = "asetcb", ![t].op = "SetLogCallback",
                            ![t].n = @ + 1, ![t].cb = f, ![t].ret = "none", ![t].err = "", ![t].resp = <<>>]
    /\ UNCHANGED <<serverAddr, lastQuery, running, listener, echList, lsn, acc, conns, log>>

\* AndroidProxyClient.SetLogCallback: a.logCallback = callback under a.mu,
\* then the deferred a.mu.Unlock()
AndroidSetLogCallbackWrite(t) ==
    /\ call[t].pc = "asetcb"
    /\ logCallback' = [logCallback EXCEPT !.android = call[t].cb, !.mu = 0]
    /\ call' = Return(t, "ok")
    /\ UNCHANGED <<serverAddr, lastQuery, running, listener, echList, lsn, acc, conns, log>>

\* the positions of a caller whose next step calls logInfo: prepareECH after
\* the store (echListMu released), Start after the second critical section
\* (c.mu released)
LogPcs == {"store", "tstore", "set"}

\* the accesses to the sink references that are about to happen: who, which
\* reference, write or read, the locks held at the access. logInfo and
\* logError read c.logCallback holding no lock; when it is the wrapper's
\* closure, the closure reads androidClient.logCallback, holding no lock
\* either. An accept loop blocked in Accept logs when Accept fails.
SinkAccesses ==
    LET writers == {t \in Callers : call[t].pc = "setcb"}
        awriters == {t \in Callers : call[t].pc = "asetcb"}
        readers == {<<"caller", t>> : t \in {u \in Callers : call[u].pc \in LogPcs}}
                   \cup {<<"acceptLoop", k>> :
                            k \in {j \in 1..Len(acc) : acc[j].pc = "accept"}}
    IN  {[who |-> <<"caller", t>>, ref |-> "client", write |-> TRUE, locks |-> {}] :
            t \in writers}
        \cup {[who |-> <<"caller", t>>, ref |-> "android", write |-> TRUE,
               locks |-> {"a.mu"}] : t \in awriters}
        \cup {[who |-> r, ref |-> "client", write |-> FALSE, locks |-> {}] :
                 r \in readers}
        \cup {[who |-> r, ref |-> "android", write |-> FALSE, locks |-> {}] :
                 r \in {x \in readers : logCallback.client = "closure"}}

----------------------------------------------------------------------------
(* Specifications *)

Init ==
    /\ serverAddr = DefaultServerAddr
    /\ logCallback = NoLogCallback
    /\ lastQuery = <<>>
    /\ running = FALSE
    /\ listener = 0
    /\ echList = <<>>
    /\ lsn = <<>>
    /\ call = [t \in Callers |-> IdleCall]
    /\ acc = <<>>
    /\ conns = <<>>
    /\ log = {}

\* a client the constructor returned for one of the server addresses
InitAddr ==
    /\ serverAddr \in {a \in ServerAddrInputs : NewProxyClient(a)}
    /\ logCallback = NoLogCallback
    /\ lastQuery = <<>>
    /\ running = FALSE
    /\ listener = 0
    /\ echList = <<>>
    /\ lsn = <<>>
    /\ call = [t \in Callers |-> IdleCall]
    /\ acc = <<>>
    /\ conns = <<>>
    /\ log = {}

\* API calls made so far by the callers in C
RECURSIVE TotalCalls(_)
TotalCalls(C) ==
    IF C = {} THEN 0
    ELSE LET t == CHOOSE u \in C : TRUE IN call[t].n + TotalCalls(C \ {t})

\* the API callers C, making at most mc calls in all, and the accept loops
LifeNext(C, mc) ==
    \/ \E t \in C, a \in Addrs : TotalCalls(C) < mc /\ StartCheck(t, a)
    \/ \E t \in C, q \in QueryOutcomes : StartQuery(t, q)
    \/ \E t \in C : StartStore(t)
    \/ \E t \in C : StartListen(t)
    \/ \E t \in C : StartSet(t)
    \/ \E t \in C : StartSpawn(t)
    \/ \E t \in C : TotalCalls(C) < mc /\ Stop(t)
    \/ \E t \in C : TotalCalls(C) < mc /\ IsRunning(t)
    \/ \E k \in 1..Len(acc) : AcceptTop(k)
    \/ \E k \in 1..Len(acc), err \in {ErrClosed, "too many open files"} : AcceptFail(k, err)

\* at most mx clients connect, each delivering an input of I
FrontNext(mx, I) ==
    \/ \E k \in 1..Len(acc), inp \in I : Len(conns) < mx /\ AcceptConn(k, inp)
    \/ \E c \in 1..Len(conns) : HandleConnection(c)

\* the tunnels: at most mf frames a session and direction, gateway messages
\* of G, client writes of D
TunnelNext(mf, G, D) ==
    \/ \E c \in 1..Len(conns), o \in DialOutcomes : TunnelDial(c, o)
    \/ \E c \in 1..Len(conns), q \in QueryOutcomes : TunnelRefreshQuery(c, q)
    \/ \E c \in 1..Len(conns) : TunnelRefreshStore(c)
    \/ \E c \in 1..Len(conns), w \in Writers :
            (w = "ping" => Len(conns[c].wsOut) <= mf) /\ Lock(c, w)
    \/ \E c \in 1..Len(conns), wok \in BOOLEAN : TunnelControl(c, wok)
    \/ \E c \in 1..Len(conns), m \in GatewayReplies, wok \in BOOLEAN : TunnelReply(c, m, wok)
    \/ \E c \in 1..Len(conns) : Ping(c)
    \/ \E c \in 1..Len(conns), d \in D :
            Len(conns[c].wsOut) + Len(conns[c].inp) <= mf /\ ClientSend(c, d)
    \/ \E c \in 1..Len(conns) : ClientClose(c)
    \/ \E c \in 1..Len(conns), wok \in BOOLEAN : CopyClientToWS(c, wok)
    \/ \E c \in 1..Len(conns) : CopyClientEOF(c)
    \/ \E c \in 1..Len(conns), m \in G, wok \in BOOLEAN :
            conns[c].nIn < mf /\ CopyWSToClient(c, m, wok)
    \/ \E c \in 1..Len(conns) : CopyWSError(c)
    \/ \E c \in 1..Len(conns) : TunnelFinish(c)

\* the callers C test the connection, making at most mc calls in all
TestNext(C, mc) ==
    \/ \E t \in C : TotalCalls(C) < mc /\ TestConnection(t)
    \/ \E t \in C, q \in QueryOutcomes : TestQuery(t, q)
    \/ \E t \in C : TestStore(t)
    \/ \E t \in C, o \in DialOutcomes : TestDial(t, o)

\* the callers C validate server addresses, making at most mc calls in all
AddrNext(C, mc) ==
    \E t \in C, a \in ServerAddrInputs : TotalCalls(C) < mc /\ ValidateCall(t, a)

\* the dialing part of the tunnels
DialNext ==
    \/ \E c \in 1..Len(conns), o \in DialOutcomes : TunnelDial(c, o)
    \/ \E c \in 1..Len(conns), q \in QueryOutcomes : TunnelRefreshQuery(c, q)
    \/ \E c \in 1..Len(conns) : TunnelRefreshStore(c)

\* lifecycle runs: two concurrent callers; the clients that connect send a
\* byte of no protocol
Next == LifeNext(Callers, MaxCalls) \/ FrontNext(MaxConns, DropInputs)
Spec == Init /\ [][Next]_vars

\* front-end runs: one caller starts the proxy, clients deliver every input
NextFront == LifeNext({1}, 1) \/ FrontNext(MaxConns, AllInputs)
SpecFront == Init /\ [][NextFront]_vars

\* tunnel runs: one caller starts and stops the proxy while tunnels run
NextTunnel ==
    \/ LifeNext({1}, TunnelCalls)
    \/ FrontNext(MaxConns, FewInputs)
    \/ TunnelNext(MaxFrames, {Frame("text", TxtCLOSE), Frame("binary", <<0, 255>>)},
                  {<<1>>})
SpecTunnel == Init /\ [][NextTunnel]_vars

\* tunnel runs in which handleTunnel, once a completion signal is in the
\* done channel, gets to receive it: the main goroutine of a session is
\* scheduled
SpecTunnelFair ==
    SpecTunnel /\ \A c \in 1..MaxConns : WF_vars(c <= Len(conns) /\ TunnelFinish(c))

\* tunnel runs in which the goroutines of a session are scheduled: a
\* goroutine that waits for the mutex gets it once it is free, a write that
\* holds the mutex returns, a read on a closed connection returns
SpecTunnelLive ==
    SpecTunnel /\ \A c \in 1..MaxConns :
        /\ WF_vars(c <= Len(conns) /\ Lock(c, "c2w"))
        /\ WF_vars(c <= Len(conns) /\ Ping(c))
        /\ WF_vars(c <= Len(conns) /\ CopyClientEOF(c))
        /\ WF_vars(c <= Len(conns) /\ conns[c].ws = "closed" /\ CopyWSError(c))

\* control-message runs: the proxy is started once, a client opens a tunnel
\* to a target of its choice
NextCtl ==
    \/ LifeNext({1}, 1)
    \/ FrontNext(MaxConns, CtlInputs)
    \/ TunnelNext(MaxFrames, {Frame("text", TxtCLOSE), Frame("binary", <<0, 255>>)},
                  {<<1>>})
SpecCtl == Init /\ [][NextCtl]_vars

\* copy runs: the proxy is started once, a client opens a tunnel, the gateway
\* sends every kind of message, the client writes and closes
NextCopy ==
    \/ LifeNext({1}, 1)
    \/ FrontNext(MaxConns, CopyInputs)
    \/ TunnelNext(CopyFrames, GatewayMsgs, {<<1>>})
SpecCopy == Init /\ [][NextCopy]_vars

\* dial runs: one caller starts the proxy and tests the connection, while the
\* tunnels of the clients dial
NextDial ==
    \/ LifeNext({1}, DialCalls)
    \/ TestNext({1}, DialCalls)
    \/ FrontNext(DialConns, CopyInputs)
    \/ DialNext
SpecDial == Init /\ [][NextDial]_vars

\* address runs: a client built for any server address the constructor
\* accepts; one caller validates addresses and tests the connection
NextAddr == AddrNext({1}, AddrCalls) \/ TestNext({1}, AddrCalls)
SpecAddr == InitAddr /\ [][NextAddr]_vars

\* the connections of the idle runs: SOCKS5 CONNECT a.io:443
IdleInputs == {<<5, 1, 0, 5, 1, 0, 3, 4, 97, 46, 105, 111, 1, 187>>}

\* idle runs: the proxy is started once, a client opens a tunnel and time
\* passes on the session; a PING is written when the ticker fires; the
\* client and the gateway may send, the client may close
NextIdle ==
    \/ LifeNext({1}, 1)
    \/ FrontNext(MaxConns, IdleInputs)
    \/ DialNext
    \/ \E c \in 1..Len(conns), w \in Writers : (w = "ping" => TickDue(c)) /\ Lock(c, w)
    \/ \E c \in 1..Len(conns), wok \in BOOLEAN : TunnelControl(c, wok)
    \/ \E c \in 1..Len(conns), m \in GatewayReplies, wok \in BOOLEAN : TunnelReply(c, m, wok)
    \/ \E c \in 1..Len(conns) : Ping(c)
    \/ \E c \in 1..Len(conns) : Advance(c)
    \/ \E c \in 1..Len(conns) :
            Len(conns[c].req) < Len(conns[c].firstFrame) + 15 /\ ClientSend(c, <<1>>)
    \/ \E c \in 1..Len(conns) : ClientClose(c)
    \/ \E c \in 1..Len(conns), wok \in BOOLEAN : CopyClientToWS(c, wok)
    \/ \E c \in 1..Len(conns) : CopyClientEOF(c)
    \/ \E c \in 1..Len(conns), m \in {Frame("text", TxtCLOSE), Frame("binary", <<0, 255>>)},
           wok \in BOOLEAN : conns[c].nIn < MaxFrames /\ CopyWSToClient(c, m, wok)
    \/ \E c \in 1..Len(conns) : TunnelFinish(c)
SpecIdle == Init /\ [][NextIdle]_vars

\* the callers C install log callbacks, making at most mc calls in all
SinkNext(C, mc) ==
    \/ \E t \in C, f \in LogCallbacks : TotalCalls(C) < mc /\ SetLogCallback(t, f)
    \/ \E t \in C : SetLogCallbackWrite(t)
    \/ \E t \in C, f \in LogCallbacks : TotalCalls(C) < mc /\ AndroidSetLogCallback(t, f)
    \/ \E t \in C : AndroidSetLogCallbackWrite(t)

\* a core client, or one inside the Android wrapper
InitSink ==
    /\ serverAddr = DefaultServerAddr
    /\ logCallback \in {NoLogCallback, NewAndroidProxyClient}
    /\ lastQuery = <<>>
    /\ running = FALSE
    /\ listener = 0
    /\ echList = <<>>
    /\ lsn = <<>>
    /\ call = [t \in Callers |-> IdleCall]
    /\ acc = <<>>
    /\ conns = <<>>
    /\ log = {}

\* sink runs: two concurrent callers start and stop the proxy and install
\* log callbacks
NextSink == LifeNext(Callers, SinkCalls) \/ SinkNext(Callers, SinkCalls)
SpecSink == InitSink /\ [][NextSink]_vars

\* Stop in its steps. c.mu is held from the Lock in Stop to the deferred
\* Unlock, which runs when Stop returns, after its logInfo.

\* sinks that call IsRunning on the client from inside the callback
ReentrantSinks == {"f2"}

\* a caller is inside Stop, c.mu held
MuHeld == \E t \in Callers : call[t].pc \in {"stoplog", "blocked"}

\* Stop: c.mu.Lock(), the test of running, the close of the listener
StopLocked(t) ==
    /\ call[t].pc = "idle"
    /\ ~MuHeld
    /\ IF ~running
       THEN /\ call' = [Return(t, "NotRunning") EXCEPT
                           ![t].op = "Stop", ![t].n = @ + 1]
            /\ UNCHANGED <<running, listener, lsn>>
       ELSE /\ running' = FALSE
            /\ IF listener # 0
               THEN /\ lsn' = CloseListener(lsn, listener)
                    /\ listener' = 0
               ELSE UNCHANGED <<lsn, listener>>
            /\ call' = [call EXCEPT ![t].pc = "stoplog", ![t].op = "Stop",
                                    ![t].n = @ + 1, ![t].ret = "none"]
    /\ UNCHANGED <<serverAddr, logCallback, lastQuery, echList, acc, conns, log>>

\* Stop: c.logInfo with c.mu held. The sink runs in the goroutine of the
\* caller; a sink that calls IsRunning waits in c.mu.Lock() for the mutex its
\* own goroutine holds. Otherwise Stop returns and the deferred Unlock runs.
StopLog(t) ==
    /\ call[t].pc = "stoplog"
    /\ log' = log \cup logInfo("proxy server stopped")
    /\ IF logCallback.client \in ReentrantSinks
       THEN call' = [call EXCEPT ![t].pc = "blocked"]
       ELSE call' = Return(t, "ok")
    /\ UNCHANGED <<serverAddr, logCallback, lastQuery, running, listener, echList, lsn, acc, conns>>

\* the embedder has installed one of the sinks, or none
InitReenter ==
    /\ serverAddr = DefaultServerAddr
    /\ logCallback \in {[NoLogCallback EXCEPT !.client = f] : f \in {"nil", "f1", "f2"}}
    /\ lastQuery = <<>>
    /\ running = FALSE
    /\ listener = 0
    /\ echList = <<>>
    /\ lsn = <<>>
    /\ call = [t \in Callers |-> IdleCall]
    /\ acc = <<>>
    /\ conns = <<>>
    /\ log = {}

\* runs with Stop in its steps: the steps that take c.mu wait for it
NextReenter ==
    \/ \E t \in Callers, a \in Addrs :
            TotalCalls(Callers) < ReenterCalls /\ ~MuHeld /\ StartCheck(t, a)
    \/ \E t \in Callers, q \in QueryOutcomes : StartQuery(t, q)
    \/ \E t \in Callers : StartStore(t)
    \/ \E t \in Callers : StartListen(t)
    \/ \E t \in Callers : ~MuHeld /\ StartSet(t)
    \/ \E t \in Callers : StartSpawn(t)
    \/ \E t \in Callers : TotalCalls(Callers) < ReenterCalls /\ StopLocked(t)
    \/ \E t \in Callers : StopLog(t)
    \/ \E t \in Callers : TotalCalls(Callers) < ReenterCalls /\ ~MuHeld /\ IsRunning(t)
    \/ \E k \in 1..Len(acc) : ~MuHeld /\ AcceptTop(k)
    \/ \E k \in 1..Len(acc), err \in {ErrClosed, "too many open files"} : AcceptFail(k, err)

SpecReenter == InitReenter /\ [][NextReenter]_vars

\* the HTTPS record of an answer: records before it, the form of its owner
\* name, its target name, the SvcParams before key 5, the ech value
DNSBefore == {<<>>, <<[type |-> 1, data |-> <<10, 0, 0, 1>>]>>}
DNSNameForms == {"labels", "pointer"}
DNSTargets == {<<0>>, <<1, 97, 0>>}
OtherParams ==
    {<<>>,
     <<[key |-> 1, value |-> <<2, 104, 50>>]>>,
     <<[key |-> 1, value |-> <<2, 104, 50>>], [key |-> 4, value |-> <<0, 5, 0, 1>>]>>}
EchInputs == {<<>>, <<254>>, <<0, 5>>, <<0, 4, 254, 13>>, <<192, 12, 0, 5, 0, 1>>}

DNSCases ==
    [before : DNSBefore, form : DNSNameForms, target : DNSTargets,
     params : OtherParams, ech : EchInputs]

\* the answer of case k to the query the client builds
DNSReply(k) ==
    DNSAnswer(buildDNSQuery(ECHDomain, typeHTTPS), k.before, k.form, k.target,
              k.params \o <<[key |-> 5, value |-> k.ech]>>)

\* two well-formed answers, the owner of the HTTPS record as labels and as
\* a pointer
BaseReplies ==
    {DNSReply([before |-> <<[type |-> 1, data |-> <<10, 0, 0, 1>>]>>, form |-> f,
               target |-> <<1, 97, 0>>,
               params |-> <<[key |-> 1, value |-> <<2, 104, 50>>],
                            [key |-> 4, value |-> <<0, 5, 0, 1>>]>>,
               ech |-> <<0, 4, 254, 13>>]) : f \in DNSNameForms}

\* responses shorter than the 12 bytes of a header
ShortResponses == {Take(b, n) : b \in BaseReplies, n \in 1..11}

\* responses whose header counts no answer: the question alone, and a whole
\* answer with ANCOUNT set to 0
NoAnswerResponses ==
    {[b EXCEPT ![7] = 0, ![8] = 0] : b \in BaseReplies} \cup
    {[Take(b, SkipLabels(b, 12).offset + 5) EXCEPT ![7] = 0, ![8] = 0] : b \in BaseReplies}

\* responses cut anywhere after the header
TruncatedResponses ==
    UNION {{Take(b, n) : n \in 12..(Len(b) - 1)} : b \in BaseReplies}

\* responses with one byte replaced: lengths of labels, ANCOUNT, types,
\* RDLENGTH, SvcParam keys and lengths take values that fit nothing
FuzzBytes == {0, 1, 5, 63, 65, 192, 255}
FuzzedResponses ==
    UNION {{[b EXCEPT ![i] = v] : i \in 1..Len(b), v \in FuzzBytes} : b \in BaseReplies}
        \ BaseReplies

\* what the transport may deliver besides the answers of the cases
OtherResponses ==
    ShortResponses \cup NoAnswerResponses \cup TruncatedResponses \cup FuzzedResponses

\* resolver runs: one caller tests the connection, the resolver answers with
\* any of the cases
NextDNS ==
    \/ \E t \in {1} : TotalCalls({1}) < DNSCalls /\ TestConnection(t)
    \/ \E t \in {1}, k \in DNSCases : TestQuery(t, queryHTTPSRecord(DNSReply(k)))
    \/ \E t \in {1} : TestStore(t)
    \/ \E t \in {1}, o \in DialOutcomes : TestDial(t, o)

SpecDNS == Init /\ [][NextDNS]_vars

\* parser runs: one caller tests the connection, the transport delivers a
\* short, answerless, truncated or fuzzed response
NextParse ==
    \/ \E t \in {1} : TotalCalls({1}) < DNSCalls /\ TestConnection(t)
    \/ \E t \in {1}, r \in OtherResponses : TestQuery(t, queryHTTPSRecord(r))
    \/ \E t \in {1} : TestStore(t)
    \/ \E t \in {1}, o \in DialOutcomes : TestDial(t, o)

SpecParse == Init /\ [][NextParse]_vars

----------------------------------------------------------------------------
(* Claims: lifecycle *)

\* the step is caller t's call of op
Called(t, op) == call'[t].n = call[t].n + 1 /\ call'[t].op = op

\* C1: a Start called while the state is Running returns AlreadyRunning at
\* once and changes nothing: no ECH refresh, no listener bound, and running,
\* the recorded listener and the ECH store are as before the call.
C1_StartWhileRunning ==
    [][\A t \in Callers :
          (Called(t, "Start") /\ running) =>
              /\ call'[t].pc = "idle"
              /\ call'[t].ret = "AlreadyRunning"
              /\ UNCHANGED <<running, listener, echList, lsn, acc, conns>>]_vars

\* a Start has been rejected while the proxy runs
C1_Witness ==
    \E t \in Callers :
        /\ call[t].op = "Start" /\ call[t].pc = "idle"
        /\ call[t].ret = "AlreadyRunning"
        /\ running /\ listener # 0

\* listeners that are bound and not closed
OpenListeners == {i \in 1..Len(lsn) : lsn[i].open}

\* C2: of concurrent Start calls on an Idle client at most one returns
\* success (no Stop has run yet), and every listener that is bound and not
\* closed is the recorded one, or is about to be recorded by the Start that
\* bound it.
C2_OneStartNoOrphan ==
    /\ (LogEntry("INFO", "proxy server stopped", "") \notin log) =>
           Cardinality({t \in Callers : call[t].op = "Start" /\ call[t].pc = "idle"
                                        /\ call[t].ret = "ok"}) <= 1
    /\ \A i \in OpenListeners :
           i = listener \/ \E t \in Callers : call[t].pc = "set" /\ call[t].lis = i

\* C3: while the client is Running the ECH store is non-empty; a Start whose
\* ECH refresh fails returns an error and leaves running, the listener, the
\* bound listeners, the accept tasks and the ECH store as they were.
C3_RunningHasECH ==
    [][/\ running' => Len(echList') > 0
       /\ \A t \in Callers :
             (call[t].pc = "ech" /\ call'[t].pc = "idle") =>
                 /\ call'[t].ret = "EchError"
                 /\ UNCHANGED <<running, listener, echList, lsn, acc>>]_vars

\* a Start has failed on its ECH refresh with the client Idle, and a Start
\* has succeeded
C3_Witness ==
    /\ \E t \in Callers : call[t].op = "Start" /\ call[t].ret = "EchError" /\ ~running
    /\ \E t \in Callers : call[t].op = "Start" /\ call[t].ret = "ok"

\* C4: a Stop on an Idle client returns NotRunning and changes nothing; a
\* successful Stop leaves the client Idle, so that a Stop following it
\* returns NotRunning.
C4_StopWhileIdle ==
    [][\A t \in Callers :
          Called(t, "Stop") =>
              IF running
              THEN call'[t].ret = "ok" /\ ~running' /\ listener' = 0
              ELSE /\ call'[t].ret = "NotRunning"
                   /\ UNCHANGED <<running, listener, echList, lsn, acc, conns, log>>]_vars

\* a Stop has returned NotRunning after a Stop that succeeded
C4_Witness ==
    /\ LogEntry("INFO", "proxy server stopped", "") \in log
    /\ \E t \in Callers : call[t].op = "Stop" /\ call[t].ret = "NotRunning"
    /\ ~running

\* C5: a successful Stop closes the recorded listener, frees its address and
\* leaves IsRunning false; a Start that then reaches net.Listen on a free
\* address binds it, and its second critical section records the new
\* listener and sets running.
C5_StopThenStart ==
    [][\A t \in Callers :
          /\ (Called(t, "Stop") /\ running) =>
                 /\ ~running'
                 /\ listener' = 0
                 /\ ~lsn'[listener].open
                 /\ ~AddrInUse(lsn', lsn[listener].addr)
          /\ (Called(t, "IsRunning") /\ ~running) => call'[t].ret = "false"
          /\ (call[t].pc = "listen" /\ call'[t] # call[t]
                 /\ ~AddrInUse(lsn, call[t].addr)) =>
                 /\ call'[t].pc = "set"
                 /\ lsn'[call'[t].lis] = [addr |-> call[t].addr, open |-> TRUE]
          /\ (call[t].pc = "set" /\ call'[t] # call[t]) =>
                 /\ running'
                 /\ listener' = call[t].lis
                 /\ lsn'[listener'].open
                 /\ lsn'[listener'].addr = call[t].addr]_vars

\* after a Stop, a Start has returned success on the address of the closed
\* listener and the new listener is the recorded one
C5_Witness ==
    /\ running /\ listener # 0
    /\ \E t \in Callers : call[t].op = "Start" /\ call[t].pc = "idle" /\ call[t].ret = "ok"
                          /\ call[t].addr = lsn[listener].addr
    /\ \E i \in 1..Len(lsn) : i < listener /\ ~lsn[i].open /\ lsn[i].addr = lsn[listener].addr

\* C6: the accept task emits no ERROR-level message for the Accept failure
\* caused by Stop closing the listener.
C6_NoErrorOnStop ==
    LogEntry("ERROR", "accept failed", ErrClosed) \notin log

----------------------------------------------------------------------------
(* Claims: tunnels across Stop *)

ConnIds == 1..Len(conns)

\* C7: Stop changes no connection (it closes no client connection and no
\* WebSocket session), and a tunnel in its copy phase is closed only after
\* one of its own copy directions has signalled completion.
C7_StopLeavesTunnels ==
    [][/\ \A t \in Callers : Called(t, "Stop") => conns' = conns
       /\ \A c \in ConnIds :
             (conns[c].pc = "copy" /\
                 (conns'[c].pc # "copy" \/ conns'[c].closed \/ conns'[c].ws # "open")) =>
                 /\ conns[c].done >= 1
                 /\ conns[c].c2w = "done" \/ conns[c].w2c = "done"]_vars

\* after a successful Stop a tunnel is still open and has carried client data
C7_Witness ==
    /\ ~running /\ listener = 0
    /\ LogEntry("INFO", "proxy server stopped", "") \in log
    /\ \E c \in ConnIds :
          /\ conns[c].pc = "copy" /\ ~conns[c].closed /\ conns[c].ws = "open"
          /\ \E i \in 1..Len(conns[c].wsOut) : conns[c].wsOut[i].type = "binary"
          /\ conns[c].nIn > 0

----------------------------------------------------------------------------
(* Claims: front ends *)

\* the connections whose first byte has been read and dispatched
Handled == {c \in ConnIds : conns[c].pc # "sniff" /\ Len(conns[c].req) > 0}

\* nothing was written to the connection, no dial was made, and it is closed
Dropped(c) ==
    /\ conns[c].pc = "closed" /\ conns[c].closed
    /\ conns[c].out = <<>>
    /\ conns[c].ws = "none" /\ conns[c].attempt = 0 /\ conns[c].wsOut = <<>>

IsHTTPRequest(req) ==
    LET r == ReadString(req, LF)
    IN  /\ r.ok
        /\ Len(Fields(r.line)) = 3
        /\ ReadHeaders(r.rest, <<>>).ok

RequestMethod(req) == Fields(ReadString(req, LF).line)[1]

\* the server has written 405 and closed the connection without a tunnel
Answered405(c) ==
    /\ conns[c].out = Resp405
    /\ conns[c].pc = "closed" /\ conns[c].closed
    /\ conns[c].ws = "none" /\ conns[c].attempt = 0

\* C9, as claimed: every HTTP request whose method is neither CONNECT nor
\* one of GET, POST, PUT, DELETE, HEAD, OPTIONS, PATCH, TRACE is answered
\* with 405 Method Not Allowed and closed without a tunnel.
C9_Every405 ==
    \A c \in Handled :
        (IsHTTPRequest(conns[c].req)
            /\ RequestMethod(conns[c].req) \notin ForwardMethods \cup {M_CONNECT}) =>
            Answered405(c)

\* C9, amended: the same for the requests whose first byte is one of
\* C G P H D O T, the ones that reach the HTTP handler; the others are
\* dropped with nothing written.
C9_405WhenSniffed ==
    \A c \in Handled :
        (IsHTTPRequest(conns[c].req)
            /\ RequestMethod(conns[c].req) \notin ForwardMethods \cup {M_CONNECT}) =>
            IF conns[c].req[1] \in {67, 71, 80, 72, 68, 79, 84}
            THEN Answered405(c)
            ELSE Dropped(c)

\* an unsupported method beginning with a sniffed letter has got its 405
C9_Witness ==
    \E c \in Handled :
        /\ IsHTTPRequest(conns[c].req)
        /\ RequestMethod(conns[c].req) = <<80, 82, 79, 80, 70, 73, 78, 68>>   \* "PROPFIND"
        /\ Answered405(c)

\* a request line of fewer than three fields, or a forwardable request in
\* origin form without a Host header
IsMalformedHTTP(req) ==
    LET r == ReadString(req, LF)
        parts == Fields(r.line)
        h == ReadHeaders(r.rest, <<>>)
    IN  /\ r.ok
        /\ \/ Len(parts) < 3
           \/ /\ Len(parts) = 3 /\ h.ok
              /\ parts[1] \in ForwardMethods
              /\ ~HasPrefix(parts[2], SchemeHTTP)
              /\ HeaderGet(h.lines, KeyHost) = <<>>

\* C10: every malformed HTTP request that reaches the HTTP handler is
\* answered with 400 Bad Request before the connection is closed, and no
\* tunnel is opened.
C10_Malformed400 ==
    \A c \in Handled :
        (conns[c].handler = "http" /\ IsMalformedHTTP(conns[c].req)) =>
            /\ conns[c].out = Resp400
            /\ conns[c].pc = "closed" /\ conns[c].closed
            /\ conns[c].ws = "none" /\ conns[c].attempt = 0

\* the four bytes {VER, CMD, RSV, ATYP} of the SOCKS5 request in req, which
\* begins with the greeting {VER, NMETHODS, METHODS}; <<>> when not all there
Socks5Header(req) ==
    IF Len(req) >= 2 /\ req[1] = 5 /\ Len(req) >= 2 + req[2] + 4
    THEN SubSeq(req, 2 + req[2] + 1, 2 + req[2] + 4)
    ELSE <<>>

\* C11: every SOCKS5 request with VER = 5 and CMD other than 0x01, whatever
\* its ATYP, is answered with exactly 05 07 00 01 00 00 00 00 00 00 (after
\* the method reply), the connection is closed and no WebSocket dial is made.
C11_CmdNotSupported ==
    \A c \in Handled :
        LET h == Socks5Header(conns[c].req)
        IN  (h # <<>> /\ h[1] = 5 /\ h[2] # 1) =>
                /\ conns[c].out = Socks5MethodReply \o Socks5CmdNotSupported
                /\ conns[c].pc = "closed" /\ conns[c].closed
                /\ conns[c].ws = "none" /\ conns[c].attempt = 0

----------------------------------------------------------------------------
(* Claims: tunnel engine *)

\* where a connection is between the call of handleTunnel and its handshake
\* outcome
HandshakePcs == {"dial", "refresh", "rstore", "ctl", "await"}

\* the handshake outcomes as the client is to see them
SuccessFor(mode) ==
    IF mode = 1 THEN <<5, 0, 0, 1, 0, 0, 0, 0, 0, 0>>
    ELSE IF mode = 2 THEN Resp200
    ELSE <<>>

FailureFor(mode) ==
    IF mode = 1 THEN <<5, 4, 0, 1, 0, 0, 0, 0, 0, 0>> ELSE Resp502

\* the gateway's first message has been read and equals CONNECTED
GotConnected(cn) ==
    cn.reply.read /\ ~cn.reply.err /\ cn.reply.msg = <<67, 79, 78, 78, 69, 67, 84, 69, 68>>

\* C12: a connection handed to the tunnel engine gets exactly one handshake
\* outcome. Nothing is written while the handshake runs; the success response
\* of the mode is written only when the gateway's first message was read and
\* equals CONNECTED, and only then the copy tasks start; on a failed dial, a
\* failed control write, a failed read, an ERROR: message or any other text
\* the failure response of the mode is written, no copy task starts and the
\* success response is not written; afterwards only gateway payloads reach
\* the client. (When the write of the success response itself fails, the
\* connection is closed with nothing written.)
C12_OneHandshakeOutcome ==
    [][\A c \in ConnIds :
          LET a == conns[c]
              b == conns'[c]
          IN  /\ (a.pc \in HandshakePcs /\ b.pc \in HandshakePcs) =>
                    b.out = a.out /\ b.c2w = "none" /\ b.w2c = "none"
              /\ (a.pc \in HandshakePcs /\ b.pc = "copy") =>
                    /\ GotConnected(b)
                    /\ b.out = a.out \o SuccessFor(a.mode)
              /\ (a.pc \in HandshakePcs /\ b.pc = "closed") =>
                    /\ b.c2w = "none" /\ b.w2c = "none"
                    /\ IF GotConnected(b) THEN b.out = a.out
                       ELSE b.out = a.out \o FailureFor(a.mode)
              /\ a.pc = "copy" =>
                    \/ b.out = a.out
                    \/ \E m \in GatewayMsgs : b.out = a.out \o m.payload
              /\ a.pc = "closed" => b.out = a.out]_vars

\* a SOCKS5 connection got its success reply after CONNECTED and is copying
C12_Witness ==
    \E c \in ConnIds :
        /\ conns[c].mode = 1 /\ conns[c].pc = "copy"
        /\ GotConnected(conns[c])
        /\ conns[c].out = <<5, 0, 5, 0, 0, 1, 0, 0, 0, 0, 0, 0>>
        /\ conns[c].c2w = "run" /\ conns[c].w2c = "run"

\* the bytes of req after the SOCKS5 greeting and request
AfterSocks5Request(req) ==
    LET o == 2 + req[2]
        atyp == req[o + 4]
        alen == IF atyp = 1 THEN 4 ELSE IF atyp = 3 THEN 1 + req[o + 5] ELSE 16
    IN  Drop(req, o + 4 + alen + 2)

\* the bytes of s after its first empty line (CR LF CR LF)
RECURSIVE AfterEmptyLine(_)
AfterEmptyLine(s) ==
    IF Len(s) < 4 THEN <<>>
    ELSE IF Take(s, 4) = <<13, 10, 13, 10>> THEN Drop(s, 4)
    ELSE AfterEmptyLine(Drop(s, 1))

\* the bytes the client has sent after its handshake / header block
ClientPayload(cn) ==
    IF cn.mode = 1 THEN AfterSocks5Request(cn.req) ELSE AfterEmptyLine(cn.req)

\* the payloads of the frames of type t in frames, concatenated in order
RECURSIVE Payloads(_, _)
Payloads(frames, t) ==
    IF frames = <<>> THEN <<>>
    ELSE (IF Head(frames).type = t THEN Head(frames).payload ELSE <<>>)
         \o Payloads(Tail(frames), t)

\* the first_frame part of the control message CONNECT:<target>|<first_frame>
\* among the frames sent to the gateway; for an HTTP proxy request the part
\* of it after the rebuilt header block
ControlFirstFrame(cn) ==
    LET ctl == SelectSeq(cn.wsOut,
                   LAMBDA f : f.type = "text" /\ HasPrefix(f.payload, <<67, 79, 78, 78, 69, 67, 84, 58>>))
        ff == Drop(ctl[1].payload, Index(ctl[1].payload, 124) + 1)
    IN  IF cn.mode = 3 THEN AfterEmptyLine(ff) ELSE ff

\* the client bytes the gateway has received
GatewayReceived(cn) == ControlFirstFrame(cn) \o Payloads(cn.wsOut, "binary")

\* C13: in every mode the bytes the gateway receives from the client side (the
\* first_frame part of the control message, then the payloads of the BINARY
\* frames in order) are exactly the bytes the client sent after its handshake
\* or header block, none lost, none duplicated: while the client->WS task
\* runs, what the client sent is what the gateway received followed by what
\* is still unread on the socket.
C13_BytesPreserved ==
    \A c \in ConnIds :
        (conns[c].pc = "copy" /\ conns[c].c2w = "run") =>
            ClientPayload(conns[c]) = GatewayReceived(conns[c]) \o conns[c].inp

\* what the client has received when the copy phase begins
CopyPrefix(mode) ==
    IF mode = 1 THEN <<5, 0>> \o SuccessFor(1) ELSE SuccessFor(mode)

\* a TEXT message equal to CLOSE
IsClose(f) == f.type = "text" /\ f.payload = <<67, 76, 79, 83, 69>>

\* the payloads of the messages of msgs that are to reach the client, in order
RECURSIVE Delivered(_)
Delivered(msgs) ==
    IF msgs = <<>> THEN <<>>
    ELSE (IF ~IsClose(Head(msgs)) /\ Head(msgs).wok THEN Head(msgs).payload ELSE <<>>)
         \o Delivered(Tail(msgs))

\* the connections whose tunnel reached the copy phase
Copying == {c \in ConnIds : conns[c].c2w # "none"}

\* C14: in the WS -> client direction a TEXT message equal to CLOSE ends the
\* task and is not written to the client; every other message read before it
\* (BINARY with any payload, a BINARY CLOSE included, or any other TEXT) has
\* its payload written verbatim, so that the client has received the
\* concatenation of those payloads in arrival order; nothing is read after a
\* CLOSE or after a failed write.
C14_WSToClient ==
    \A c \in Copying :
        LET msgs == conns[c].wsIn
        IN  /\ \A i \in 1..(Len(msgs) - 1) : ~IsClose(msgs[i]) /\ msgs[i].wok
            /\ conns[c].out = CopyPrefix(conns[c].mode) \o Delivered(msgs)
            /\ (msgs # <<>> /\ IsClose(msgs[Len(msgs)])) => conns[c].w2c = "done"

\* the gateway sent BINARY CLOSE, then TEXT CLOSE: the client of a SOCKS5
\* tunnel got the five bytes of the first, and the task has ended
C14_Witness ==
    \E c \in Copying :
        /\ conns[c].mode = 1
        /\ Len(conns[c].wsIn) = 2
        /\ conns[c].wsIn[1].type = "binary" /\ conns[c].wsIn[1].payload = <<67, 76, 79, 83, 69>>
        /\ IsClose(conns[c].wsIn[2])
        /\ conns[c].out = <<5, 0, 5, 0, 0, 1, 0, 0, 0, 0, 0, 0, 67, 76, 79, 83, 69>>
        /\ conns[c].w2c = "done"

\* frames holds at most one TEXT CLOSE and no BINARY frame after it
NoDataAfterClose(frames) ==
    \A i \in 1..Len(frames) :
        IsClose(frames[i]) =>
            \A j \in (i + 1)..Len(frames) : frames[j].type = "ping"

\* C15: in the client -> WS direction, when the client's read returns EOF or
\* an error while the session is open, the task sends one TEXT frame CLOSE and
\* then signals completion; the CLOSE comes after every BINARY frame carrying
\* bytes read earlier, and the gateway gets no client data after it.
C15_CloseAfterData ==
    [][\A c \in Copying :
          LET a == conns[c]
              b == conns'[c]
          IN  /\ (a.c2w = "run" /\ b.c2w = "done" /\ b.inp = a.inp /\ a.ws = "open") =>
                    /\ b.wsOut = Append(a.wsOut, [type |-> "text", payload |-> <<67, 76, 79, 83, 69>>])
                    /\ b.done = a.done + 1
              /\ NoDataAfterClose(b.wsOut)]_vars

\* the client sent a byte and closed: the gateway got the control message,
\* the BINARY frame and then CLOSE, and the task has signalled completion
C15_Witness ==
    \E c \in Copying :
        /\ conns[c].eof /\ conns[c].c2w = "done"
        /\ \E i \in 1..Len(conns[c].wsOut) :
              /\ conns[c].wsOut[i] = [type |-> "binary", payload |-> <<1>>]
              /\ i < Len(conns[c].wsOut)
              /\ IsClose(conns[c].wsOut[Len(conns[c].wsOut)])

----------------------------------------------------------------------------
(* Claims: dialer *)

\* C16: a dial with max_retries = n makes at most n attempts and at most n - 1
\* ECH refreshes; an iteration asks for a refresh and a retry only when its
\* error contains "ECH" (a rejected ECH, or an empty ECH store) and attempts
\* remain, and any other dial error is returned at once. A tunnel (n = 2)
\* makes at most two attempts with at most one refresh between them; a
\* TestConnection (n = 1) makes a single attempt and returns.
C16_BoundedRetries ==
    [][/\ \A n \in 1..3, k \in 1..3, o \in DialOutcomes :
              k <= n =>
                  LET d == DialAttempt(n, k, o)
                  IN  /\ d.next = "refresh" =>
                            k < n /\ d.err \in {"ECH rejected", "ECH config not loaded"}
                      /\ d.err = "dial error" => d.next = "return"
       /\ \A c \in ConnIds :
              LET a == conns[c]
                  b == conns'[c]
              IN  /\ b.attempt <= 2 /\ b.dials <= 2 /\ b.refreshes <= 1
                  /\ b.dials <= b.attempt
                  /\ b.refreshes # a.refreshes =>
                        /\ b.refreshes = a.refreshes + 1
                        /\ a.pc = "dial" /\ a.attempt < 2
                        /\ b.derr \in {"ECH rejected", "ECH config not loaded"}
                  /\ b.dials # a.dials =>
                        /\ b.dials = a.dials + 1
                        /\ a.dials = a.refreshes
                  /\ (a.pc = "dial" /\ b.derr = "dial error") =>
                        b.pc = "closed" /\ b.refreshes = a.refreshes
                  /\ a.pc = "closed" => b.dials = a.dials /\ b.refreshes = a.refreshes
       /\ \A t \in Callers :
              /\ call'[t].dials <= 1
              /\ (call[t].pc = "tdial" /\ call'[t] # call[t]) => call'[t].pc = "idle"]_vars

\* a tunnel's first attempt met an ECH rejection, the store was refreshed,
\* and the second attempt returned the session
C16_Witness ==
    \E c \in ConnIds :
        /\ conns[c].dials = 2 /\ conns[c].refreshes = 1 /\ conns[c].attempt = 2
        /\ conns[c].ws = "open"

\* C17: when every one of the max_retries attempts of a dial fails, the dial
\* returns the MaxRetriesExceeded error: so for a tunnel whose two attempts
\* failed and for a TestConnection whose one attempt failed.
C17_MaxRetriesExceeded ==
    /\ \A c \in ConnIds :
          (conns[c].pc = "closed" /\ conns[c].attempt = 2 /\ conns[c].via = "none") =>
              conns[c].derr = "connection failed, max retries reached"
    /\ \A t \in Callers :
          (call[t].op = "TestConnection" /\ call[t].ret = "DialError") =>
              call[t].derr = "connection failed, max retries reached"

\* the dial history d (of a tunnel or of a TestConnection) has no session
\* from an attempt whose ECH the server rejected, and its last dial was made
\* with a non-empty ECH config list and TLS 1.3 as minimum version
ECHEnforced(d) ==
    /\ d.via # "ECH rejected"
    /\ d.dials > 0 =>
          /\ d.tls.MinVersion = 772
          /\ d.tls.EncryptedClientHelloConfigList # <<>>

\* C18: the dialer never returns a WebSocket session from an attempt in which
\* the server rejected ECH (the rejection fails that attempt's handshake, with
\* no cleartext fallback), and every attempt is made with a non-empty ECH
\* config list and TLS 1.3 as minimum version.
C18_ECHEnforced ==
    /\ \A c \in ConnIds : ECHEnforced(conns[c])
    /\ \A t \in Callers : ECHEnforced(call[t])

\* the server rejected the ECH of a tunnel's first attempt: the attempt
\* failed, no session exists, and the dialer is refreshing the store
C18_Witness ==
    \E c \in ConnIds :
        /\ conns[c].dials = 1 /\ conns[c].derr = "ECH rejected"
        /\ conns[c].ws = "none" /\ conns[c].pc = "refresh"
        /\ conns[c].tls.EncryptedClientHelloConfigList # <<>>

----------------------------------------------------------------------------
(* Claims: configuration *)

\* the address is host:port with an optional path: before the first '/', a
\* non-empty host (a bracketed literal, or a name without ':' '[' ']'), the
\* last ':' and a non-empty port without brackets
HasHostAndPort(a) ==
    LET sl == Index(a, 47)
        au == IF sl >= 0 THEN Take(a, sl) ELSE a
        i == LastIndex(au, 58)
        host == Take(au, i)
        port == Drop(au, i + 1)
        plain(x) == \A n \in 1..Len(x) : x[n] \notin {91, 93}
    IN  /\ i > 0
        /\ port # <<>> /\ plain(port)
        /\ \/ plain(host) /\ Index(host, 58) < 0
           \/ /\ Len(host) > 2 /\ host[1] = 91 /\ host[Len(host)] = 93
              /\ plain(SubSeq(host, 2, Len(host) - 1))

\* C19: the server_addr of every client the constructor returned parses into
\* (host, port, path) with host and port both present, and
\* ValidateServerAddr accepts an address exactly when it has a non-empty
\* host, a port and an optional path; an address with no port, or with an
\* empty host such as :443, is rejected by both.
C19_ServerAddrWellFormed ==
    /\ HasHostAndPort(serverAddr)
    /\ \A t \in Callers :
          call[t].op = "ValidateServerAddr" =>
              (call[t].ret = "ok" <=> HasHostAndPort(call[t].arg))

----------------------------------------------------------------------------
(* Claims: log sink *)

\* C20: replacing the log sink is atomic with respect to logging: no state
\* has one goroutine about to read a sink reference (to emit a message) and
\* another about to write the same reference in SetLogCallback unless the two
\* accesses hold a common lock. It fails for the core client and for the
\* Android wrapper.
C20_SinkAtomic ==
    \A r, w \in SinkAccesses :
        (~r.write /\ w.write /\ r.who # w.who /\ r.ref = w.ref)
            => r.locks \cap w.locks # {}

----------------------------------------------------------------------------
(* Claims: keepalive *)

\* the tunnel of c is established (CONNECTED was read and the success reply
\* written to the client) and nothing has happened on it since: the client
\* has sent nothing and has not closed, the gateway has sent nothing
IdleTunnel(c) ==
    /\ conns[c].reply.read /\ ~conns[c].reply.err
    /\ conns[c].reply.msg = TxtCONNECTED
    /\ LET r == SuccessResponse(conns[c].mode)
       IN  /\ Len(conns[c].out) >= Len(r)
           /\ Drop(conns[c].out, Len(conns[c].out) - Len(r)) = r
    /\ conns[c].req \in IdleInputs
    /\ ~conns[c].eof
    /\ conns[c].wsIn = <<>>

\* C21: on an established tunnel with no traffic in either direction the
\* session stays open however long it idles (the 30 s accept deadline
\* included), a PING is written on every tick of the 10 s ticker, and once
\* it has idled 30 s at least two PINGs have been written since it was
\* established.
C21_Keepalive ==
    \A c \in 1..Len(conns) :
        IdleTunnel(c) =>
            /\ conns[c].pc = "copy" /\ conns[c].done = 0
            /\ conns[c].c2w = "run" /\ conns[c].w2c = "run" /\ conns[c].ping = "run"
            /\ conns[c].ws = "open" /\ ~conns[c].closed
            /\ NumPings(conns[c].wsOut) + 1 >= conns[c].now \div TickerPeriod
            /\ conns[c].now - conns[c].estAt >= AcceptDeadline
                  => NumPings(conns[c].wsOut) - conns[c].estPings >= 2

C21_Witness ==
    \E c \in 1..Len(conns) :
        /\ IdleTunnel(c)
        /\ conns[c].now - conns[c].estAt >= AcceptDeadline
        /\ conns[c].now >= AcceptDeadline + TimeStep
        /\ NumPings(conns[c].wsOut) - conns[c].estPings >= 2

----------------------------------------------------------------------------
(* Claims: HTTP forwarding *)

\* the request line and the header lines of what the client of c sent
RequestParts(c) == Fields(ReadString(conns[c].req, LF).line)
RequestHeaders(c) == ReadHeaders(ReadString(conns[c].req, LF).rest, <<>>).lines

\* c carries an HTTP request with a forwarded method that went to the tunnel
Forwarded(c) ==
    /\ conns[c].handler = "http"
    /\ conns[c].mode = modeHTTPProxy
    /\ Len(RequestParts(c)) >= 3
    /\ RequestParts(c)[1] \in ForwardMethods

\* the authority and the path as the claim derives them from the request
\* target: after "http://", the text up to the first "/" and the rest ("/"
\* when there is no "/"); otherwise the Host header and the request target
AuthorityOf(url, lines) ==
    IF HasPrefix(url, SchemeHTTP)
    THEN LET rest == Drop(url, Len(SchemeHTTP))
             i == Index(rest, Slash)
         IN  IF i >= 0 THEN Take(rest, i) ELSE rest
    ELSE HeaderGet(lines, KeyHost)

PathOf(url) ==
    IF HasPrefix(url, SchemeHTTP)
    THEN LET rest == Drop(url, Len(SchemeHTTP))
             i == Index(rest, Slash)
         IN  IF i >= 0 THEN Drop(rest, i) ELSE <<Slash>>
    ELSE url

\* C22: a forwarded request is tunnelled to its authority, ":80" appended
\* when it has no ":", and its first frame starts with
\* METHOD SP path SP HTTP-VERSION CRLF. It fails for the target http:///x,
\* whose authority is empty: the code takes "/x" for the authority and "/"
\* for the path.
C22_HTTPTarget ==
    \A c \in 1..Len(conns) :
        Forwarded(c) =>
            LET parts == RequestParts(c)
                authority == AuthorityOf(parts[2], RequestHeaders(c))
            IN  /\ conns[c].target =
                      IF Contains(authority, Colon) THEN authority
                      ELSE authority \o Port80
                /\ HasPrefix(conns[c].firstFrame,
                             parts[1] \o <<SP>> \o PathOf(parts[2]) \o <<SP>>
                                 \o parts[3] \o CRLF)

\* the header lines of a request that a sanitizer keeps, each followed by
\* CRLF: those whose key (the text before the first ":"), lowercased, after
\* its surrounding white space is removed when trim is set, is neither
\* proxy-connection nor proxy-authorization
RECURSIVE Sanitized(_, _)
Sanitized(lines, trim) ==
    IF Len(lines) = 0 THEN <<>>
    ELSE LET key == SplitFirst(lines[1], Colon)
             k == ToLower(IF trim THEN TrimSpace(key) ELSE key)
         IN  (IF k \in {KeyProxyConnection, KeyProxyAuthorization}
              THEN <<>> ELSE lines[1] \o CRLF)
             \o Sanitized(Drop(lines, 1), trim)

\* what follows the request line in the first frame of c
AfterRequestLine(c) ==
    Drop(conns[c].firstFrame, Index(conns[c].firstFrame, LF) + 1)

\* C23 as stated: the header block of the first frame is exactly the
\* client's header lines whose key, lowercased, is neither proxy-connection
\* nor proxy-authorization, in their order, followed by a blank line. It
\* fails for the line "Proxy-Connection : x", which the code removes.
C23_HeadersKeyLowercased ==
    \A c \in 1..Len(conns) :
        Forwarded(c) =>
            HasPrefix(AfterRequestLine(c), Sanitized(RequestHeaders(c), FALSE) \o CRLF)

\* C23, amended: the header block of the first frame is exactly the client's
\* header lines (each without its trailing CR and LF characters, written
\* back with CRLF) whose key, with surrounding white space removed and
\* lowercased, is neither proxy-connection nor proxy-authorization, in their
\* original order, followed by a blank line.
C23_HeadersSanitized ==
    \A c \in 1..Len(conns) :
        Forwarded(c) =>
            HasPrefix(AfterRequestLine(c), Sanitized(RequestHeaders(c), TRUE) \o CRLF)

C23_Witness ==
    \E c \in 1..Len(conns) :
        /\ Forwarded(c)
        /\ Len(RequestHeaders(c)) >= 2
        /\ Sanitized(RequestHeaders(c), TRUE) # <<>>
        /\ Sanitized(RequestHeaders(c), TRUE) # Sanitized(RequestHeaders(c), FALSE)

----------------------------------------------------------------------------
(* Claims: SOCKS5 target *)

\* the SOCKS5 request of c after the greeting (VER, NMETHODS, METHODS)
Socks5Req(c) == Drop(conns[c].req, 2 + conns[c].req[2])

\* c carries a SOCKS5 CONNECT request that went to the tunnel
Socks5Connect(c) ==
    /\ conns[c].handler = "socks5"
    /\ conns[c].mode = modeSOCKS5
    /\ conns[c].pc \notin {"sniff", "closed"}

\* the text of a 16-octet IPv6 address: hexadecimal groups, the first longest
\* run of zero groups written as "::"
IPv6Text(b) ==
    LET g == Groups16(b)
        zs == ZeroStart(g)
    IN  String6From(g, 1, zs, IF zs = 0 THEN 0 ELSE ZeroRun(g, zs))

\* the target the claim gives for a request VER CMD RSV ATYP ADDR PORT
Socks5Target(r) ==
    LET atyp == r[4]
        n == IF atyp = 1 THEN 4 ELSE IF atyp = 3 THEN r[5] ELSE 16
        a == IF atyp = 3 THEN SubSeq(r, 6, 5 + n) ELSE SubSeq(r, 5, 4 + n)
        p == IF atyp = 3 THEN 5 + n ELSE 4 + n
        port == Itoa(r[p + 1] * 256 + r[p + 2])
    IN  IF atyp = 1 THEN IPv4String(a) \o <<Colon>> \o port
        ELSE IF atyp = 3 THEN a \o <<Colon>> \o port
        ELSE <<91>> \o IPv6Text(a) \o <<93, Colon>> \o port

\* C24: a SOCKS5 CONNECT request is tunnelled to host:port, the port read
\* big-endian, the host the dotted IPv4 address, the raw domain or, in
\* brackets, the IPv6 address. It fails for the ATYP 4 address
\* ::ffff:10.0.0.1, which the code writes as [10.0.0.1].
C24_Socks5Target ==
    \A c \in 1..Len(conns) :
        Socks5Connect(c) => conns[c].target = Socks5Target(Socks5Req(c))

----------------------------------------------------------------------------
(* Claims: writes to the WebSocket session *)

\* C25: the writes to one WebSocket session (PING, the control message,
\* BINARY frames, CLOSE) are mutually exclusive: at most one goroutine is
\* inside wsConn.WriteMessage, and it holds the mutex of the session.
C25_WritesExclusive ==
    \A c \in 1..Len(conns) :
        /\ Cardinality(conns[c].inWrite) <= 1
        /\ conns[c].inWrite # {} => conns[c].mu \in conns[c].inWrite

\* the keepalive goroutine is inside its write while the client -> WS
\* goroutine has bytes to send, on a session that already carries frames
C25_Witness ==
    \E c \in 1..Len(conns) :
        /\ conns[c].inWrite = {"ping"}
        /\ conns[c].pc = "copy"
        /\ conns[c].ws = "open"
        /\ AtWrite(conns[c], "c2w")
        /\ Len(conns[c].inp) > 0
        /\ Len(conns[c].wsOut) >= 2

\* the positions in the frames written to the session of c of the control
\* message: a TEXT frame CONNECT:<target>|<first_frame>
ControlFrames(c) ==
    {i \in 1..Len(conns[c].wsOut) :
        /\ conns[c].wsOut[i].type = "text"
        /\ conns[c].wsOut[i].payload =
               CtlPrefix \o conns[c].target \o <<Pipe>> \o conns[c].firstFrame}

\* C26: per tunnel the control message is sent once, as a TEXT frame (no
\* other TEXT frame but CLOSE is ever sent); once the handshake is past the
\* control write it has been sent exactly once; every BINARY frame and every
\* CLOSE frame comes after it in the order of the session, and only when the
\* gateway's CONNECTED was read.
C26_ControlFirst ==
    \A c \in 1..Len(conns) :
        LET out == conns[c].wsOut
        IN  /\ Cardinality(ControlFrames(c)) <= 1
            /\ \A i \in 1..Len(out) :
                   out[i].type = "text" => i \in ControlFrames(c) \/ IsClose(out[i])
            /\ (conns[c].pc \in {"await", "copy"} \/ conns[c].reply.read)
                   => Cardinality(ControlFrames(c)) = 1
            /\ \A i \in 1..Len(out) :
                   (out[i].type = "binary" \/ IsClose(out[i])) =>
                       /\ \E j \in ControlFrames(c) : j < i
                       /\ GotConnected(conns[c])

\* a session on which the control message, then a BINARY frame, then CLOSE
\* were written
C26_Witness ==
    \E c \in 1..Len(conns) :
        \E i, j, k \in 1..Len(conns[c].wsOut) :
            /\ i \in ControlFrames(c) /\ i < j /\ j < k
            /\ conns[c].wsOut[j].type = "binary"
            /\ IsClose(conns[c].wsOut[k])

----------------------------------------------------------------------------
(* Claims: end of the session *)

\* the session of c has ended: the keepalive goroutine was told to stop, the
\* WebSocket connection and the client connection are closed
Ended(cn) == cn.ping = "stopped" /\ cn.ws = "closed" /\ cn.closed

\* C27: the first completion signal of either copy direction ends the
\* session. An established session leaves its copy phase only with a signal
\* in the done channel, and then the keepalive goroutine is told to stop and
\* both connections are closed; and whenever a copy goroutine has signalled,
\* the session does end.
C27_FirstSignalEnds ==
    /\ [][\A c \in 1..Len(conns) :
            (conns[c].pc = "copy" /\ conns'[c] # conns[c]) =>
                /\ conns'[c].pc # "copy" => conns[c].done >= 1 /\ Ended(conns'[c])
                /\ Ended(conns'[c]) => conns'[c].pc # "copy"]_vars
    /\ \A c \in 1..MaxConns :
           (c <= Len(conns) /\ conns[c].pc = "copy" /\ conns[c].done >= 1)
               ~> (c <= Len(conns) /\ Ended(conns[c]))

\* a session ended by the signal of the WS -> client goroutine while the
\* client -> WS goroutine was still running
C27_Witness ==
    \E c \in 1..Len(conns) :
        /\ Ended(conns[c])
        /\ GotConnected(conns[c])
        /\ conns[c].w2c = "done"
        /\ conns[c].c2w = "run"

\* a session ended by the signal of the client -> WS goroutine while the
\* WS -> client goroutine was still running
C27_WitnessClient ==
    \E c \in 1..Len(conns) :
        /\ Ended(conns[c])
        /\ GotConnected(conns[c])
        /\ conns[c].c2w = "done"
        /\ conns[c].w2c = "run"

----------------------------------------------------------------------------
(* Claims: ECH store *)

\* some goroutine has completed a successful query and not yet stored it
StorePending ==
    \/ \E t \in Callers : call[t].pc \in {"store", "tstore"}
    \/ \E c \in 1..Len(conns) : conns[c].pc = "rstore"

\* C28: whenever no store is pending, a non-empty ECH store holds the bytes
\* of the most recently completed successful HTTPS-RR query: an older result
\* never overwrites a newer one. It fails when two refreshes overlap: the
\* query and the store of prepareECH are not one critical section.
C28_StoreIsLatest ==
    (~StorePending /\ echList # <<>>) => echList = lastQuery

----------------------------------------------------------------------------
(* Claims: HTTP body *)

\* the integer a Content-Length value spells in decimal digits, -1 when it
\* spells none (absent, empty or with another character)
ContentLength(v) ==
    IF v # <<>> /\ \A i \in 1..Len(v) : IsDigit(v[i]) THEN DigitsValue(v, 0) ELSE -1

\* C29: the body is in the first frame exactly when Content-Length is an
\* integer N with 0 < N < 10 * 1048576, and then exactly the N bytes that
\* follow the client's blank line follow the blank line of the first frame;
\* otherwise the first frame ends at its blank line. It fails when the
\* client delivers fewer than N bytes: the frame is sent without a body.
C29_BodyForwarded ==
    \A c \in 1..Len(conns) :
        Forwarded(c) =>
            LET N == ContentLength(HeaderGet(RequestHeaders(c), KeyContentLength))
                sent == AfterEmptyLine(conns[c].req)
                body == AfterEmptyLine(conns[c].firstFrame)
            IN  IF 0 < N /\ N < 10 * 1048576
                THEN Len(body) = N /\ body = Take(sent, N)
                ELSE body = <<>>

----------------------------------------------------------------------------
(* Claims: DNS answer *)

\* C30: for every ECH byte string, parsing a well-formed answer to the built
\* query whose HTTPS record carries SvcParamKey 5 with those bytes, then
\* base64-decoding the text, gives back exactly those bytes, whether the
\* owner name is written as labels or as a pointer and whatever SvcParams
\* precede key 5; the bytes prepareECH holds for the store are those bytes
C30_RoundTrip ==
    /\ \A k \in DNSCases :
           LET p == parseDNSResponse(DNSReply(k))
           IN  ~p.err /\ Base64Decode(p.ech) = [ok |-> TRUE, bytes |-> k.ech]
    /\ \A t \in Callers, k \in DNSCases :
           (call[t].resp # <<>> /\ call[t].resp = DNSReply(k)) => call[t].raw = k.ech

\* an answer with a record before the HTTPS record, the owner as labels, a
\* target name and two SvcParams before key 5 has been decoded
C30_Witness ==
    \E t \in Callers, k \in DNSCases :
        /\ k.before # <<>> /\ k.form = "labels" /\ k.target # <<0>>
        /\ Len(k.params) = 2 /\ Len(k.ech) = 6
        /\ call[t].pc = "tstore"
        /\ call[t].resp = DNSReply(k)
        /\ call[t].raw = k.ech

\* the same with the owner written as a pointer
C30_WitnessPointer ==
    \E t \in Callers, k \in DNSCases :
        /\ k.form = "pointer" /\ Len(k.params) = 1 /\ Len(k.ech) = 2
        /\ call[t].pc = "tstore"
        /\ call[t].resp = DNSReply(k)
        /\ call[t].raw = k.ech

\* C31 as the specification words it: for a response shorter than a header,
\* with ANCOUNT = 0 or with truncated records the parser returns the empty
\* result and no error, so that prepareECH reports a missing ECH parameter
C31_MalformedIsEmpty ==
    \A t \in Callers :
        call[t].resp \in ShortResponses \cup NoAnswerResponses \cup TruncatedResponses =>
            LET p == parseDNSResponse(call[t].resp)
            IN  ~p.err /\ p.ech = <<>> /\ call[t].err = "no ECH parameter"

\* C31: for a response shorter than the 12 bytes of a header or with
\* ANCOUNT = 0 the parser returns an error, which prepareECH reports as a
\* failed DNS query; for a response with truncated records it returns the
\* empty result and no error, which prepareECH reports as a missing ECH
\* parameter
C31_MalformedOutcome ==
    \A t \in Callers :
        LET p == parseDNSResponse(call[t].resp)
        IN  /\ call[t].resp \in ShortResponses \cup NoAnswerResponses =>
                   p.err /\ call[t].ret = "EchError" /\ call[t].err = "DNS query failed"
            /\ call[t].resp \in TruncatedResponses =>
                   ~p.err /\ p.ech = <<>> /\ call[t].ret = "EchError"
                          /\ call[t].err = "no ECH parameter"

\* a response cut inside its HTTPS record has been parsed, and so has one
\* whose header counts no answer
C31_Witness ==
    \E t \in Callers :
        /\ call[t].resp \in TruncatedResponses
        /\ \E b \in BaseReplies : Len(call[t].resp) = Len(b) - 3
        /\ call[t].pc = "idle" /\ call[t].err = "no ECH parameter"

C31_WitnessNoAnswer ==
    \E t \in Callers :
        /\ call[t].resp \in NoAnswerResponses
        /\ call[t].pc = "idle" /\ call[t].err = "DNS query failed"

\* C37: for every byte string given as a DNS response the response parser
\* and the HTTPS-record parser end, after no more loop iterations than the
\* response has bytes, without a read or a slice outside their input
C37_ParserInBounds ==
    \A t \in Callers :
        LET p == parseDNSResponse(call[t].resp)
        IN  ~p.oob /\ p.steps <= Len(call[t].resp)

\* a response with one byte replaced has been parsed through several loop
\* iterations to the empty result
C37_Witness ==
    \E t \in Callers :
        /\ call[t].resp \in FuzzedResponses
        /\ call[t].pc = "idle" /\ call[t].err = "no ECH parameter"
        /\ parseDNSResponse(call[t].resp).steps >= 8

\* a response cut inside the fixed part of a record has been parsed
C37_WitnessCut ==
    \E t \in Callers, b \in BaseReplies :
        /\ call[t].resp = Take(b, SkipLabels(b, 12).offset + 5 + 2 + 6)
        /\ call[t].pc = "idle" /\ call[t].err = "no ECH parameter"

----------------------------------------------------------------------------
(* Claims: ECH store across refreshes *)

\* C32: a prepareECH that fails (query error, no ECH parameter, decode
\* error) leaves the ECH store as it is, every write to the store stores a
\* non-empty byte string, and once the store is non-empty getECHList never
\* again fails
C32_StoreStaysLoaded ==
    [][/\ \A t \in Callers :
              (call[t].pc \in {"ech", "tech"} /\ call'[t].ret = "EchError") =>
                  echList' = echList
       /\ \A c \in 1..Len(conns) :
              (conns[c].pc = "refresh" /\ conns'[c].pc = "dial") => echList' = echList
       /\ echList' # echList => echList' # <<>>
       /\ getECHList.ok => getECHList'.ok]_vars

\* a prepareECH has failed for want of an ECH parameter while the store was
\* loaded, and the store is still loaded
C32_Witness ==
    \E t \in Callers :
        /\ call[t].pc = "idle" /\ call[t].n = 2
        /\ call[t].ret = "EchError" /\ call[t].err = "no ECH parameter"
        /\ getECHList.ok

----------------------------------------------------------------------------
(* Claims: accept tasks *)

\* C33: an accept task started for one listener never goes on to accept on
\* the listener of a later Start, so that at most one accept task serves
\* the client at any time. It fails: the loop reads c.listener anew in each
\* iteration, and after a failed Accept it tests the value of running it
\* read before the Stop.
C33_OneAcceptTask ==
    \A k \in 1..Len(acc) :
        acc[k].pc = "accept" => acc[k].listener = acc[k].lis

----------------------------------------------------------------------------
(* Claims: the tasks of a session *)

\* the keepalive goroutine and the two copy goroutines of a session have
\* returned (or were never started)
TasksGone(cn) ==
    /\ cn.ping \in {"none", "stopped"} /\ "ping" \notin cn.inWrite
    /\ cn.c2w \in {"none", "done"}
    /\ cn.w2c \in {"none", "done"}

\* C34: after a session has ended, on the copy phase as on every earlier
\* failure, its keepalive goroutine and its two copy goroutines eventually
\* return; the done channel of capacity 2 never holds more than two signals,
\* each copy goroutine sending one
C34_TasksTerminate ==
    /\ [](\A c \in 1..Len(conns) :
             /\ conns[c].done <= 2
             /\ conns[c].done <= Cardinality({g \in {"c2w", "w2c"} : conns[c][g] = "done"}))
    /\ \A c \in 1..MaxConns :
           (c <= Len(conns) /\ conns[c].pc = "closed") ~>
               (c <= Len(conns) /\ TasksGone(conns[c]))

\* a session has ended on the first signal, and the goroutine that had not
\* signalled has since put the second signal into the channel and returned
C34_Witness ==
    \E c \in 1..Len(conns) :
        /\ conns[c].pc = "closed" /\ TasksGone(conns[c])
        /\ conns[c].c2w = "done" /\ conns[c].w2c = "done"
        /\ conns[c].done = 1

\* a session has failed while the keepalive goroutine was inside its write
C34_WitnessEarly ==
    \E c \in 1..Len(conns) :
        /\ conns[c].pc = "closed" /\ conns[c].c2w = "none"
        /\ conns[c].ping = "stopped" /\ "ping" \in conns[c].inWrite

----------------------------------------------------------------------------
(* Claims: the sink and the mutex of the listener state *)

\* C35: the log sink is never invoked while c.mu is held, and no call of
\* Start, Stop or IsRunning waits for ever, also when the sink calls
\* IsRunning on the same client. It fails: Stop logs before its deferred
\* Unlock has run.
C35_SinkOutsideMutex ==
    \A t \in Callers :
        /\ ~(call[t].pc = "stoplog" /\ logCallback.client # "nil")
        /\ call[t].pc # "blocked"

----------------------------------------------------------------------------
(* Claims: the control message on the gateway's side *)

\* the gateway's reading of CONNECT:<target>|<first_frame>: the text after
\* the prefix, split at its first '|'
SplitControl(msg) ==
    LET rest == Drop(msg, Len(CtlPrefix))
    IN  [target |-> Take(rest, Index(rest, Pipe)),
         firstFrame |-> Drop(rest, Index(rest, Pipe) + 1)]

\* C36: splitting the control message after the CONNECT: prefix at its
\* first '|' gives back the target and the first_frame of the connection;
\* the target never contains '|'. It fails for a SOCKS5 domain and for an
\* HTTP CONNECT request target with a '|' in it.
C36_ControlSplits ==
    \A c \in 1..Len(conns) :
        \A i \in 1..Len(conns[c].wsOut) :
            LET f == conns[c].wsOut[i]
            IN  (f.type = "text" /\ HasPrefix(f.payload, CtlPrefix)) =>
                    /\ ~Contains(conns[c].target, Pipe)
                    /\ SplitControl(f.payload) =
                           [target |-> conns[c].target,
                            firstFrame |-> conns[c].firstFrame]

====
